---- MODULE Spec2Model ----
(***************************************************************************)
(* Zone / window state machine and tab ordering of the TabbedTiling        *)
(* extension (modules/Zone.js, modules/WindowManager.js, modules/TabBar.js *)
(* and modules/Tab.js).                                                    *)
(*                                                                         *)
(* JavaScript strings are sequences of UTF-16 code units, so that          *)
(* toLowerCase(), includes() and the relational operators are computed as  *)
(* the engine computes them.  null / undefined is the one-element sequence *)
(* <<0>>, a value no string of the model takes.                            *)
(***************************************************************************)
EXTENDS Integers, Sequences, FiniteSets, TLC

\* ------------------------------------------------------------------ bounds
NumWindows == 3      \* windows of the universe (all of them exist in SpecTabs)
NumOpen == 2         \* windows open in the zone machine
NumCreated == 1      \* windows a session of the window manager creates
NumMru == 6          \* windows of the zone whose MRU history is followed
MaxZones == 5        \* Zone objects alive at any one time
MaxPending == 0      \* deferred callbacks outstanding when a handler may start
MaxPressed == 1      \* tabs holding a press at any one time
MaxDrags == 2        \* drags begun in a session

Windows == 1..NumWindows
NoWindow == 0

\* ---------------------------------------------------------------- strings
Null == <<0>>
EmptyStr == << >>

StrAlpha == <<65, 108, 112, 104, 97>>
StrAlphaLower == <<97, 108, 112, 104, 97>>
StrBravo == <<66, 114, 97, 118, 111>>
StrUnknown == <<117, 110, 107, 110, 111, 119, 110>>
StrTerm == <<84, 101, 114, 109>>
StrTermLower == <<116, 101, 114, 109>>
StrWeb == <<87, 101, 98>>
StrFoo == <<70, 111, 111>>
StrFooLower == <<102, 111, 111>>

\* JS truthiness of a string-or-null value
Truthy(s) == s # Null /\ s # EmptyStr

\* JS  a || b
OrElse(a, b) == IF Truthy(a) THEN a ELSE b

\* JS  s?.toLowerCase() ?? ''
LowerOrEmpty(s) ==
    IF s = Null THEN EmptyStr
    ELSE [i \in 1..Len(s) |-> IF s[i] >= 65 /\ s[i] <= 90 THEN s[i] + 32 ELSE s[i]]

\* JS  a < b  on strings: code-unit lexicographic order
StrLess(a, b) ==
    \E k \in 0..Len(a) :
        /\ k <= Len(b)
        /\ \A i \in 1..k : a[i] = b[i]
        /\ \/ k = Len(a) /\ k < Len(b)
           \/ k < Len(a) /\ k < Len(b) /\ a[k + 1] < b[k + 1]

\* JS  s.includes(sub)
Includes(s, sub) ==
    \E off \in 0..Len(s) :
        /\ off + Len(sub) <= Len(s)
        /\ \A i \in 1..Len(sub) : s[off + i] = sub[i]

\* ------------------------------------------------------- window metadata
NoApp == [id |-> Null, name |-> Null]
App1 == [id |-> <<116, 49>>, name |-> StrTerm]
App2 == [id |-> <<116, 50>>, name |-> StrTermLower]
App3 == [id |-> <<119, 51>>, name |-> StrWeb]

\* title, application and window class of the windows the model draws from
MetaChoices ==
    { [title |-> StrBravo, app |-> App1, wmClass |-> StrFoo],
      [title |-> StrAlpha, app |-> App1, wmClass |-> StrFoo],
      [title |-> StrAlphaLower, app |-> App2, wmClass |-> StrFooLower],
      [title |-> EmptyStr, app |-> NoApp, wmClass |-> Null] }

TabConfigs ==
    [groupingCriteria : {"appName", "wmClass"},
     sortingCriteria : {"windowTitle", "appName", "wmClass"},
     sortingOrder : {"ASC", "DESC"}]

VARIABLES winMeta, tabCfg

\* ---------------------------------------------------------------- Tab.js
\* Tab.getGroupingId
getGroupingId(w) ==
    IF tabCfg.groupingCriteria = "wmClass" THEN winMeta[w].wmClass
    ELSE IF winMeta[w].app # NoApp THEN winMeta[w].app.id
    ELSE OrElse(winMeta[w].wmClass, StrUnknown)

TitleWithFallbacks(w) ==
    OrElse(winMeta[w].title,
           OrElse(IF winMeta[w].app # NoApp THEN winMeta[w].app.name ELSE Null,
                  \* ... || 'Untitled'
                  OrElse(winMeta[w].wmClass,
                         <<85, 110, 116, 105, 116, 108, 101, 100>>)))

\* Tab.getSortKey
getSortKey(w) ==
    IF tabCfg.sortingCriteria = "appName" /\ winMeta[w].app # NoApp
    THEN winMeta[w].app.name
    ELSE IF tabCfg.sortingCriteria = "wmClass" THEN winMeta[w].wmClass
    ELSE TitleWithFallbacks(w)

\* Tab.getGroupSortKey
getGroupSortKey(w) ==
    IF tabCfg.groupingCriteria = "wmClass" THEN OrElse(winMeta[w].wmClass, StrUnknown)
    ELSE IF winMeta[w].app # NoApp THEN winMeta[w].app.name
    ELSE OrElse(winMeta[w].wmClass, StrUnknown)

\* -------------------------------------------------------------- TabBar.js
\* new TabBar(tabBarConfig): no tabs, not visible
NewTabBar == [tabs |-> << >>, roles |-> << >>, activeTab |-> NoWindow, visible |-> FALSE]

\* this.set_height(tabBarConfig.height || 32)
TabBarHeight == 32

sortOrder == IF tabCfg.sortingOrder = "DESC" THEN -1 ELSE 1

\* the three-way comparison of two strings the comparator is built from
StrOrder(a, b) == IF StrLess(a, b) THEN -1 ELSE IF StrLess(b, a) THEN 1 ELSE 0

\* a comparator that leaves the case of the keys alone
TabCompareCaseSensitive(a, b) ==
    IF StrOrder(getGroupSortKey(a), getGroupSortKey(b)) # 0
    THEN StrOrder(getGroupSortKey(a), getGroupSortKey(b)) * sortOrder
    ELSE StrOrder(getSortKey(a), getSortKey(b)) * sortOrder

\* the comparator handed to tabs.sort in TabBar.reorderTabs
TabCompare(a, b) ==
    LET groupA == LowerOrEmpty(getGroupSortKey(a))
        groupB == LowerOrEmpty(getGroupSortKey(b))
        keyA == LowerOrEmpty(getSortKey(a))
        keyB == LowerOrEmpty(getSortKey(b))
    IN  IF StrLess(groupA, groupB) THEN -1 * sortOrder
        ELSE IF StrLess(groupB, groupA) THEN 1 * sortOrder
        ELSE (IF StrLess(keyB, keyA) THEN 1
              ELSE IF StrLess(keyA, keyB) THEN -1 ELSE 0) * sortOrder

\* Array.prototype.sort is stable: an element goes after every element that does
\* not compare greater than it
InsertSorted(sorted, t) ==
    LET p == Cardinality({i \in 1..Len(sorted) : TabCompare(sorted[i], t) <= 0})
    IN  SubSeq(sorted, 1, p) \o <<t>> \o SubSeq(sorted, p + 1, Len(sorted))

RECURSIVE StableSort(_)
StableSort(tabs) ==
    IF tabs = << >> THEN << >>
    ELSE InsertSorted(StableSort(SubSeq(tabs, 1, Len(tabs) - 1)), tabs[Len(tabs)])

\* a class choice whose first test leaves the previous tab out
GroupClassIgnoringPrev(currentId, prevId, nextId) ==
    IF Truthy(currentId) /\ currentId = nextId THEN "start"
    ELSE IF Truthy(currentId) /\ currentId = prevId THEN "end"
    ELSE "solo"

\* the style class the loop of TabBar._updateGroupStyles gives a tab, from its
\* grouping ID and those of its neighbours
GroupClass(currentId, prevId, nextId) ==
    IF Truthy(currentId) /\ currentId = nextId /\ currentId # prevId THEN "start"
    ELSE IF Truthy(currentId) /\ currentId = prevId /\ currentId = nextId THEN "middle"
    ELSE IF Truthy(currentId) /\ currentId = prevId /\ currentId # nextId THEN "end"
    ELSE "solo"

\* prevId / nextId of the loop: null at either end of the bar
NeighbourId(children, j) ==
    IF j >= 1 /\ j <= Len(children) THEN getGroupingId(children[j]) ELSE Null

GroupRole(children, i) ==
    GroupClass(getGroupingId(children[i]), NeighbourId(children, i - 1),
               NeighbourId(children, i + 1))

\* TabBar._updateGroupStyles
UpdateGroupStyles(children) ==
    IF Len(children) <= 1 THEN [i \in 1..Len(children) |-> "solo"]
    ELSE [i \in 1..Len(children) |-> GroupRole(children, i)]

\* the bar once its children are in the sorted order and restyled
WithTabs(bar, sorted) == [bar EXCEPT !.tabs = sorted, !.roles = UpdateGroupStyles(sorted)]

\* TabBar.reorderTabs
ReorderTabsBar(bar) ==
    IF Len(bar.tabs) < 2
    THEN [bar EXCEPT !.roles = UpdateGroupStyles(bar.tabs)]
    ELSE WithTabs(bar, StableSort(bar.tabs))

InSeq(x, seq) == \E i \in 1..Len(seq) : seq[i] = x

SeqWithout(seq, x) == SelectSeq(seq, LAMBDA e : e # x)

\* TabBar.setActiveTab
SetActiveTab(bar, w) ==
    [bar EXCEPT !.activeTab = IF InSeq(w, bar.tabs) THEN w ELSE NoWindow]

\* TabBar.addTab
AddTab(bar, w) ==
    IF InSeq(w, bar.tabs) THEN SetActiveTab(bar, w)
    ELSE ReorderTabsBar([bar EXCEPT !.tabs = Append(bar.tabs, w),
                                     !.roles = Append(bar.roles, "solo")])

\* TabBar.removeTab
RemoveTab(bar, w) ==
    IF InSeq(w, bar.tabs)
    THEN ReorderTabsBar([bar EXCEPT
             !.tabs = SeqWithout(bar.tabs, w),
             !.roles = [i \in 1..(Len(bar.tabs) - 1) |-> "solo"],
             !.activeTab = IF bar.activeTab = w THEN NoWindow ELSE bar.activeTab])
    ELSE bar

\* ----------------------------------------------------------- environment
\* Main.layoutManager.monitors: origin of each monitor, index 0 first
Monitors == << [x |-> 0, y |-> 0, width |-> 400, height |-> 300],
               [x |-> 400, y |-> 50, width |-> 400, height |-> 300] >>

\* global.display.get_monitor_index_for_rect for a 1x1 rectangle: -1 off every monitor
MonitorAt(x, y) ==
    LET hit == {i \in DOMAIN Monitors :
                   /\ x >= Monitors[i].x /\ x < Monitors[i].x + Monitors[i].width
                   /\ y >= Monitors[i].y /\ y < Monitors[i].y + Monitors[i].height}
    IN  IF hit = {} THEN -1 ELSE (CHOOSE i \in hit : \A j \in hit : i <= j) - 1

NoGaps == [top |-> -1, right |-> -1, bottom |-> -1, left |-> -1]

\* config.zones as ConfigManager.load() returns it: the primary zone of the
\* second monitor with per-side gaps and odd width, and a zone of the first
\* monitor with the legacy numeric gap and odd height
ConfigZones ==
    << [name |-> "A", monitorIndex |-> 1, x |-> 10, y |-> 20, width |-> 301, height |-> 200,
        gaps |-> [top |-> 1, right |-> 2, bottom |-> 3, left |-> 4], gap |-> -1,
        isPrimary |-> TRUE],
       [name |-> "B", monitorIndex |-> 0, x |-> 0, y |-> 0, width |-> 300, height |-> 201,
        gaps |-> NoGaps, gap |-> 5, isPrimary |-> FALSE] >>

\* zones are named by their path in the tree: <<t>> is the t-th zone of
\* WindowManager._zones, Append(p, 1) and Append(p, 2) are the children of p
NoZone == << >>

\* A reference to a Zone object that was destroyed (its _tabBar is null and it is
\* in no tree), of the monitor index it keeps.  Only a window's
\* _tilingOriginalZone, and then its _tilingZone, can come to hold one.
DestroyedZone(monitorIndex) == <<0, monitorIndex>>

IsDestroyed(z) == Len(z) > 0 /\ z[1] = 0

child1Id(z) == Append(z, 1)
child2Id(z) == Append(z, 2)

NoRequest == [kind |-> "none", window |-> 0, x |-> 0, y |-> 0, width |-> 0, height |-> 0]

VARIABLES
    zones,        \* live Zone objects, by path
    topZones,     \* WindowManager._zones
    tilingZone,   \* window._tilingZone
    originalZone, \* window._tilingOriginalZone
    bypass,       \* window._tilingBypass
    wstate,       \* window -> "normal" | "maximized" | "fullscreen"
    wlife,        \* window -> "unborn" | "open" | "closed"
    wmonitor,     \* window.get_monitor()
    tracked,      \* keys of WindowManager._windowStateSignals
    grab,         \* the compositor's grab operation in progress, if any, with
                  \* whether CONTROL was held when it began
    hoverTimer,   \* WindowManager._dragHoverTimerId is set
    focus,        \* the window last handed to window.activate()
    lastReq,      \* the last move_frame / move_resize_frame request of the latest step
    pending,      \* deferred callbacks scheduled with GLib.idle_add / timeout_add
    lastOp,       \* the handler that ran last
    drag,         \* globalDragState of TabDND.js
    pressState,   \* tabActor._pressState of the tab of each window
    hiddenTabs,   \* the windows whose tab actor is hidden
    clicked,      \* the window the latest step emitted 'tab-clicked' for
    pressDragged, \* history: the windows held pressed whose press began a drag
    dragsBegun,   \* history: the number of drags begun
    closedSnapped,\* history: the windows that were snapped in a zone when they
                  \* left the window list
    enabled,      \* WindowManager.enable() ran and disable() has not: the signal
                  \* handlers are connected
    compositor    \* the host's answer to placement requests: how it treats them,
                  \* the frame it gave the window it placed last, and (history)
                  \* the frames the settle check found since the last event of
                  \* the user or a client

\* the frame of a window no request was answered for
NoFrame == [x |-> 0, y |-> 0, width |-> 0, height |-> 0]

Compositor(policy) == [policy |-> policy, frame |-> NoFrame, seen |-> {}, again |-> FALSE]

\* let globalDragState = null.  A drag is its source bar (by zone), the dragged
\* tabs, the bar hosting the placeholder with the placeholder's index among the
\* children of that bar's container, and whether the two stage handlers are
\* still connected
NoDrag == [source |-> NoZone, tabs |-> << >>, host |-> NoZone, index |-> 0, connected |-> FALSE]

\* tabActor._pressState = { pressTimeoutId: 0, details: null, dragStarted: false }
NewPressState == [timer |-> FALSE, details |-> FALSE, dragStarted |-> FALSE]

\* -------------------------------------------------------------- Zone.js
\* window.get_maximized() || window.is_fullscreen()
IsMaxOrFull(w) == wstate[w] \in {"maximized", "fullscreen"}

\* Zone constructor: defaults, then Object.assign(this, zoneData), then the
\* fields the constructor sets afterwards
Zone(zoneData, parentZone) ==
    [ childZones |-> IF "childZones" \in DOMAIN zoneData THEN zoneData.childZones ELSE << >>,
      splitDirection |-> IF "splitDirection" \in DOMAIN zoneData
                         THEN zoneData.splitDirection ELSE "none",
      name |-> zoneData.name,
      monitorIndex |-> zoneData.monitorIndex,
      x |-> zoneData.x,
      y |-> zoneData.y,
      width |-> zoneData.width,
      height |-> zoneData.height,
      gaps |-> zoneData.gaps,
      gap |-> zoneData.gap,
      isPrimary |-> zoneData.isPrimary,
      parentZone |-> parentZone,
      snappedWindows |-> << >>,
      history |-> << >>,
      activeWindow |-> NoWindow,
      forceHidden |-> FALSE,
      tabBar |-> NewTabBar ]

\* get monitor()
HasMonitor(zone) == zone.monitorIndex + 1 \in DOMAIN Monitors

\* get rect(): meaningful when HasMonitor(zone)
rect(zone) ==
    [ x |-> Monitors[zone.monitorIndex + 1].x + zone.x,
      y |-> Monitors[zone.monitorIndex + 1].y + zone.y,
      width |-> zone.width,
      height |-> zone.height ]

\* Zone._getGaps:  g?.side ?? legacy ?? 0
getGaps(zone) ==
    LET legacy == IF zone.gap >= 0 THEN zone.gap ELSE 0
        side(v) == IF zone.gaps # NoGaps /\ v >= 0 THEN v ELSE legacy
    IN  [ top |-> side(zone.gaps.top), right |-> side(zone.gaps.right),
          bottom |-> side(zone.gaps.bottom), left |-> side(zone.gaps.left) ]

TerminalClasses ==
    { <<103, 110, 111, 109, 101, 45, 116, 101, 114, 109, 105, 110, 97, 108>>,
      <<111, 114, 103, 46, 103, 110, 111, 109, 101, 46, 116, 101, 114, 109, 105, 110, 97, 108>>,
      <<107, 103, 120>>,
      <<107, 111, 110, 115, 111, 108, 101>>,
      <<97, 108, 97, 99, 114, 105, 116, 116, 121>>,
      <<107, 105, 116, 116, 121>>,
      <<120, 116, 101, 114, 109>> }

\* const isTerminal = klass.toLowerCase().includes(...) || ...
isTerminal(w) ==
    LET klass == OrElse(winMeta[w].wmClass, EmptyStr)
    IN  \E t \in TerminalClasses : Includes(LowerOrEmpty(klass), t)

Max0(n) == IF n > 0 THEN n ELSE 0

\* the size hints _quantizeToSizeHints assumes for a terminal
baseW == 68
baseH == 101
incW == 10
incH == 19

\* a quantization to the next valid size above the requested one
quantizeUp(w, requestedW, requestedH) ==
    IF ~isTerminal(w) THEN <<requestedW, requestedH>>
    ELSE << baseW + Max0((requestedW - baseW + incW - 1) \div incW) * incW,
            baseH + Max0((requestedH - baseH + incH - 1) \div incH) * incH >>

\* Zone._quantizeToSizeHints: base size 68x101, increments 10x19
quantizeToSizeHints(w, requestedW, requestedH) ==
    IF ~isTerminal(w) THEN <<requestedW, requestedH>>
    ELSE << baseW + Max0((requestedW - baseW) \div incW) * incW,
            baseH + Max0((requestedH - baseH) \div incH) * incH >>

\* a frame that leaves no room for the tab bar
SnapFrameNoTabBar(zone, w) ==
    [ x |-> rect(zone).x + getGaps(zone).left,
      y |-> rect(zone).y + getGaps(zone).top,
      width |-> rect(zone).width - (getGaps(zone).left + getGaps(zone).right),
      height |-> rect(zone).height - (getGaps(zone).top + getGaps(zone).bottom) ]

\* the frame snapWindow computes for a window in a zone that has a monitor
SnapFrame(zone, w) ==
    LET g == getGaps(zone)
        r == rect(zone)
        newWidth == r.width - (g.left + g.right)
        newHeight == r.height - (g.top + g.bottom) - TabBarHeight
        adj == quantizeToSizeHints(w, newWidth, newHeight)
    IN  [ x |-> r.x + g.left, y |-> r.y + g.top + TabBarHeight,
          width |-> adj[1], height |-> adj[2] ]

\* Zone._updateVisibility
UpdateVisibility(zone) ==
    [zone EXCEPT !.tabBar.visible = Len(zone.snappedWindows) > 0 /\ ~zone.forceHidden]

\* Zone.setTabBarVisible
setTabBarVisible(zone, visible) ==
    [zone EXCEPT !.tabBar.visible = IF zone.forceHidden THEN FALSE ELSE visible]

\* Zone.setForceHidden
setForceHidden(zone, hidden) ==
    IF zone.forceHidden = hidden THEN zone
    ELSE UpdateVisibility([zone EXCEPT !.forceHidden = hidden])

\* this._history.length = 5
HistoryCap == 5

\* this._history.filter(w => w && w !== window && this._snappedWindows.has(w))
PruneHistory(zone, w) ==
    SelectSeq(zone.history, LAMBDA h : h # w /\ InSeq(h, zone.snappedWindows))

\* The state the Zone methods read and write, as one record.
\* thrown: a TypeError left the running handler (a call on a null _tabBar)
World ==
    [ zones |-> zones, tilingZone |-> tilingZone, originalZone |-> originalZone,
      focus |-> focus, lastReq |-> NoRequest, pending |-> pending, wmonitor |-> wmonitor,
      tracked |-> tracked, thrown |-> FALSE ]

\* an activateWindow that never shortens the history
activateWindowUncapped(S, z, w) ==
    IF InSeq(w, S.zones[z].snappedWindows)
    THEN [S EXCEPT
             !.focus = w,
             !.zones[z].tabBar = SetActiveTab(S.zones[z].tabBar, w),
             !.zones[z].activeWindow = w,
             !.zones[z].history = <<w>> \o PruneHistory(S.zones[z], w)]
    ELSE S

\* an activateWindow that does not ask whether the zone holds the window
activateWindowUnchecked(S, z, w) ==
    [S EXCEPT
        !.focus = w,
        !.zones[z].tabBar = SetActiveTab(S.zones[z].tabBar, w),
        !.zones[z].activeWindow = w,
        !.zones[z].history = SubSeq(<<w>> \o PruneHistory(S.zones[z], w), 1,
                                    IF Len(PruneHistory(S.zones[z], w)) < HistoryCap
                                    THEN Len(PruneHistory(S.zones[z], w)) + 1
                                    ELSE HistoryCap)]

\* Zone.activateWindow
activateWindow(S, z, w) ==
    IF InSeq(w, S.zones[z].snappedWindows)
    THEN [S EXCEPT
             !.focus = w,
             !.zones[z].tabBar = SetActiveTab(S.zones[z].tabBar, w),
             !.zones[z].activeWindow = w,
             !.zones[z].history = SubSeq(<<w>> \o PruneHistory(S.zones[z], w), 1,
                                         IF Len(PruneHistory(S.zones[z], w)) < HistoryCap
                                         THEN Len(PruneHistory(S.zones[z], w)) + 1
                                         ELSE HistoryCap)]
    ELSE S

\* this._updateVisibility() of one zone
updateVisibilityOf(S, z) == [S EXCEPT !.zones[z] = UpdateVisibility(@)]

\* this._history = this._history.filter(...) of unsnapWindow
withPrunedHistory(zone, w) == [zone EXCEPT !.history = PruneHistory(zone, w)]

\* the zone once the window left its set, its bar and its history
withoutWindow(zone, w) ==
    withPrunedHistory([zone EXCEPT !.snappedWindows = SeqWithout(@, w),
                                   !.tabBar = RemoveTab(@, w)], w)

\* a fallback that always takes the first window of the set
activateFirst(S, z) ==
    IF S.zones[z].snappedWindows # << >>
    THEN activateWindow(S, z, S.zones[z].snappedWindows[1])
    ELSE [S EXCEPT !.zones[z].activeWindow = NoWindow]

\* if (wasActive): the most recently used window, else the first of the set,
\* else no active window
activateNext(S, z) ==
    IF S.zones[z].history # << >> THEN activateWindow(S, z, S.zones[z].history[1])
    ELSE IF S.zones[z].snappedWindows # << >>
    THEN activateWindow(S, z, S.zones[z].snappedWindows[1])
    ELSE [S EXCEPT !.zones[z].activeWindow = NoWindow]

unsnapRemoved(S, z, wasActive) == IF wasActive THEN activateNext(S, z) ELSE S

\* an unsnapWindow that does not ask whether the zone holds the window
unsnapLiveUnguarded(S, z, w) ==
    updateVisibilityOf(
        unsnapRemoved([S EXCEPT !.zones[z] = withoutWindow(@, w),
                                !.tilingZone[w] = NoZone],
                      z, S.zones[z].activeWindow = w), z)

\* Zone.unsnapWindow on a live zone
unsnapLive(S, z, w) ==
    updateVisibilityOf(
        IF InSeq(w, S.zones[z].snappedWindows)
        THEN unsnapRemoved([S EXCEPT !.zones[z] = withoutWindow(@, w),
                                     !.tilingZone[w] = NoZone],
                           z, S.zones[z].activeWindow = w)
        ELSE S, z)

\* Zone.unsnapWindow.  On a destroyed zone the window leaves the set and loses its
\* tag, then this._tabBar.removeTab (or _updateVisibility) throws on the null bar.
unsnapWindow(S, z, w) ==
    IF S.thrown THEN S
    ELSE IF IsDestroyed(z)
    THEN [S EXCEPT !.tilingZone[w] = IF @ = z THEN NoZone ELSE @, !.thrown = TRUE]
    ELSE unsnapLive(S, z, w)

\* the three placement requests of one snap: window.move_frame now, then
\* move_resize_frame from GLib.idle_add and from GLib.timeout_add(50)
MoveRequest(w, f) ==
    [kind |-> "move_frame", window |-> w, x |-> f.x, y |-> f.y, width |-> 0, height |-> 0]

MoveResizeRequest(w, f) ==
    [kind |-> "move_resize_frame", window |-> w, x |-> f.x, y |-> f.y, width |-> f.width, height |-> f.height]

DeferredTasks(w, f) ==
    { [kind |-> k, window |-> w, x |-> f.x, y |-> f.y, width |-> f.width, height |-> f.height]
        : k \in {"idle", "timeout"} }

\* Zone._twoStepMoveResize and the GLib.timeout_add that follows it in snapWindow
twoStepMoveResize(S, w, f) ==
    [S EXCEPT !.lastReq = MoveRequest(w, f),
              !.wmonitor[w] = IF MonitorAt(f.x, f.y) >= 0 THEN MonitorAt(f.x, f.y) ELSE @,
              !.pending = @ \cup DeferredTasks(w, f)]

\* a guard that lets a maximized window through
snapGuardFullscreenOnly(w) == wstate[w] = "fullscreen"

\* the guard of Zone.snapWindow: window.get_maximized() || window.is_fullscreen()
snapGuard(w) == IsMaxOrFull(w)

\* a snap that never takes the window out of the zone it is in
leaveOtherZoneNever(S, z, w) == S

\* if (window._tilingZone && window._tilingZone !== this) window._tilingZone.unsnapWindow(window)
leaveOtherZone(S, z, w) ==
    IF S.tilingZone[w] # NoZone /\ S.tilingZone[w] # z
    THEN unsnapWindow(S, S.tilingZone[w], w) ELSE S

\* a parent that hands a snap to its second child
delegateSecond(S, z) == S.zones[z].childZones[2]

\* this.childZones[0], the zone a parent hands a snap to
delegateZone(S, z) == S.zones[z].childZones[1]

\* snapWindow on a destroyed zone once the window left its other zone: the set
\* takes the window and the tag is set, then this._tabBar.addTab throws; for a
\* window already in the set the first call on the null bar throws, unless the
\* zone has no monitor and the method returned before it
snapDestroyedAdd(S, z, w) ==
    IF S.thrown THEN S
    ELSE IF S.tilingZone[w] # z THEN [S EXCEPT !.tilingZone[w] = z, !.thrown = TRUE]
    ELSE IF z[2] + 1 \notin DOMAIN Monitors THEN S
    ELSE [S EXCEPT !.thrown = TRUE]

\* Zone.snapWindow on a destroyed zone (reached through a stale
\* _tilingOriginalZone or _tilingZone): childZones is empty and _tabBar is null
snapDestroyed(S, z, w) ==
    IF snapGuard(w) THEN S ELSE snapDestroyedAdd(leaveOtherZone(S, z, w), z, w)

\* if (!this._snappedWindows.has(window)) { add, tag, addTab }
snapAdd(S, z, w) ==
    IF InSeq(w, S.zones[z].snappedWindows) THEN S
    ELSE [S EXCEPT !.zones[z].snappedWindows = Append(@, w),
                   !.tilingZone[w] = z,
                   !.zones[z].tabBar = AddTab(@, w)]

\* the rest of snapWindow: return without a monitor; else the placement
\* requests, activateWindow and _updateVisibility
snapPlace(S, z, w) ==
    IF ~HasMonitor(S.zones[z]) THEN S
    ELSE updateVisibilityOf(
             activateWindow(twoStepMoveResize(S, w, SnapFrame(S.zones[z], w)), z, w), z)

\* snapWindow on a leaf once the window left its other zone
snapLeaf(S, z, w) == IF S.thrown THEN S ELSE snapPlace(snapAdd(S, z, w), z, w)

\* Zone.snapWindow
RECURSIVE snapWindow(_, _, _)
snapWindow(S, z, w) ==
    IF S.thrown THEN S
    ELSE IF IsDestroyed(z) THEN snapDestroyed(S, z, w)
    ELSE IF Len(S.zones[z].childZones) > 0 THEN snapWindow(S, delegateZone(S, z), w)
    ELSE IF snapGuard(w) THEN S
    ELSE snapLeaf(leaveOtherZone(S, z, w), z, w)

\* Zone.restoreSnap
restoreSnap(S, z, w) ==
    IF IsDestroyed(z)
    THEN (IF S.tilingZone[w] = z THEN snapWindow(S, z, w) ELSE S)
    ELSE IF InSeq(w, S.zones[z].snappedWindows) THEN snapWindow(S, z, w) ELSE S

\* windows.forEach(w => zone.unsnapWindow(w))
RECURSIVE unsnapEach(_, _, _)
unsnapEach(S, z, ws) ==
    IF ws = << >> THEN S ELSE unsnapEach(unsnapWindow(S, z, Head(ws)), z, Tail(ws))

\* windows.forEach(w => zone.snapWindow(w))
RECURSIVE snapEach(_, _, _)
snapEach(S, z, ws) ==
    IF ws = << >> THEN S ELSE snapEach(snapWindow(S, z, Head(ws)), z, Tail(ws))

\* [...this._snappedWindows].forEach(win => this.unsnapWindow(win))
unsnapAll(S, z) == unsnapEach(S, z, S.zones[z].snappedWindows)

\* the end of destroy: the tab bar is destroyed and the object is in no tree;
\* a window dragged out of it still refers to it
forgetZone(S, z, m) ==
    [S EXCEPT
        !.zones = [id \in DOMAIN S.zones \ {z} |-> S.zones[id]],
        !.originalZone = [w \in DOMAIN S.originalZone |->
                             IF S.originalZone[w] = z THEN DestroyedZone(m)
                             ELSE S.originalZone[w]]]

\* Zone.destroy: the children first, then every window is unsnapped and the tab
\* bar is destroyed.  The object stays reachable only from a window's
\* _tilingOriginalZone.
RECURSIVE destroy(_, _)
RECURSIVE destroyEach(_, _)
destroyEach(S, zs) ==
    IF zs = << >> THEN S ELSE destroyEach(destroy(S, Head(zs)), Tail(zs))

destroy(S, z) ==
    forgetZone(unsnapAll([destroyEach(S, S.zones[z].childZones)
                             EXCEPT !.zones[z].childZones = << >>], z),
               z, S.zones[z].monitorIndex)

\* a split that gives the first child the larger half
ChildDataCeil(zone, direction, second) ==
    IF direction = "horizontal"
    THEN (IF second THEN [zone EXCEPT !.height = zone.height \div 2,
                                      !.y = zone.y + (zone.height + 1) \div 2]
          ELSE [zone EXCEPT !.height = (zone.height + 1) \div 2])
    ELSE (IF second THEN [zone EXCEPT !.width = zone.width \div 2,
                                      !.x = zone.x + (zone.width + 1) \div 2]
          ELSE [zone EXCEPT !.width = (zone.width + 1) \div 2])

\* the childData a split hands to the Zone constructor: { ...this } with one
\* dimension halved
ChildData(zone, direction, second) ==
    IF direction = "horizontal"
    THEN LET newHeight == zone.height \div 2
         IN  IF second THEN [zone EXCEPT !.height = zone.height - newHeight,
                                         !.y = zone.y + newHeight]
             ELSE [zone EXCEPT !.height = newHeight]
    ELSE LET newWidth == zone.width \div 2
         IN  IF second THEN [zone EXCEPT !.width = zone.width - newWidth,
                                         !.x = zone.x + newWidth]
             ELSE [zone EXCEPT !.width = newWidth]

\* this.childZones = [new Zone(childData1, ..., this), new Zone(childData2, ..., this)]
addChildren(S, z, direction) ==
    [S EXCEPT
        !.zones = [id \in DOMAIN S.zones \cup {child1Id(z), child2Id(z)} |->
                      IF id = child1Id(z) THEN Zone(ChildData(S.zones[z], direction, FALSE), z)
                      ELSE IF id = child2Id(z)
                           THEN Zone(ChildData(S.zones[z], direction, TRUE), z)
                      ELSE IF id = z
                           THEN [S.zones[z] EXCEPT !.childZones = <<child1Id(z), child2Id(z)>>]
                      ELSE S.zones[id]]]

\* Zone.split
split(S, z, direction) ==
    IF Len(S.zones[z].childZones) > 0 \/ direction \notin {"horizontal", "vertical"} THEN S
    ELSE [snapEach(addChildren(unsnapEach([S EXCEPT !.zones[z].splitDirection = direction],
                                          z, S.zones[z].snappedWindows),
                               z, direction),
                   child1Id(z), S.zones[z].snappedWindows)
             EXCEPT !.zones[z] = setTabBarVisible(@, FALSE)]

RECURSIVE FlatSnapped(_, _)
\* this.childZones.flatMap(child => [...child.getSnappedWindows()])
FlatSnapped(S, zs) ==
    IF zs = << >> THEN << >>
    ELSE S.zones[Head(zs)].snappedWindows \o FlatSnapped(S, Tail(zs))

\* Zone.merge
merge(S, z) ==
    IF Len(S.zones[z].childZones) = 0 THEN S
    ELSE updateVisibilityOf(
             snapEach([destroyEach(S, S.zones[z].childZones)
                          EXCEPT !.zones[z].childZones = << >>,
                                 !.zones[z].splitDirection = "none"],
                      z, FlatSnapped(S, S.zones[z].childZones)), z)

\* ------------------------------------------------------- WindowManager.js
\* config.exclusions as ConfigManager.load() returns it
Exclusions == [list |-> << StrWeb >>, criteria |-> "appName"]

\* window.get_window_type(): the second window is a dialog
WindowType == [w \in Windows |-> IF w = 2 THEN "DIALOG" ELSE "NORMAL"]

\* window.get_window_type() === Meta.WindowType.NORMAL
IsNormalType(w) == WindowType[w] = "NORMAL"

\* an _isSnappable that does not consult the exclusion list
isSnappableWithoutExclusions(w) ==
    IF wstate[w] = "fullscreen" THEN FALSE ELSE IsNormalType(w)

\* WindowManager._isSnappable
isSnappable(w) ==
    IF wstate[w] = "fullscreen" THEN FALSE
    ELSE LET windowId == IF Exclusions.criteria = "appName"
                         THEN (IF winMeta[w].app # NoApp THEN winMeta[w].app.name ELSE Null)
                         ELSE winMeta[w].wmClass
             excluded == /\ Len(Exclusions.list) > 0
                         /\ Truthy(windowId)
                         /\ \E i \in DOMAIN Exclusions.list : Includes(windowId, Exclusions.list[i])
         IN  IF excluded THEN FALSE ELSE IsNormalType(w)

\* Zone.containsWindow; a destroyed zone holds the windows that were snapped to
\* it after its destruction, and these are the windows tagged with it
containsWindow(S, z, w) ==
    IF IsDestroyed(z) THEN S.tilingZone[w] = z ELSE InSeq(w, S.zones[z].snappedWindows)

\* Zone.getAllLeafZones
RECURSIVE getAllLeafZones(_, _)
getAllLeafZones(S, zs) ==
    IF zs = << >> THEN << >>
    ELSE (IF Len(S.zones[Head(zs)].childZones) = 0 THEN << Head(zs) >>
          ELSE getAllLeafZones(S, S.zones[Head(zs)].childZones))
         \o getAllLeafZones(S, Tail(zs))

\* the first of the leaves a recursive search accepts, in the order it visits them
FirstLeaf(found) == IF found = << >> THEN NoZone ELSE found[1]

\* WindowManager._findLeafZoneAt and Zone.findLeafZoneAt
findLeafZoneAt(S, x, y) ==
    FirstLeaf(SelectSeq(getAllLeafZones(S, topZones),
              LAMBDA z : /\ HasMonitor(S.zones[z])
                         /\ x >= rect(S.zones[z]).x
                         /\ x < rect(S.zones[z]).x + rect(S.zones[z]).width
                         /\ y >= rect(S.zones[z]).y
                         /\ y < rect(S.zones[z]).y + rect(S.zones[z]).height))

\* WindowManager._distancePointToRect, squared
distancePointToRect2(x, y, r) ==
    LET rx2 == r.x + r.width
        ry2 == r.y + r.height
        dx == IF x < r.x THEN r.x - x ELSE IF x > rx2 THEN x - rx2 ELSE 0
        dy == IF y < r.y THEN r.y - y ELSE IF y > ry2 THEN y - ry2 ELSE 0
    IN  dx * dx + dy * dy

\* thresholdPx = 48
HoverThreshold == 48

\* WindowManager._findNearestZoneWithinThreshold
findNearestZoneWithinThreshold(S, x, y) ==
    LET monitorIndex == MonitorAt(x, y)
        leaves == SelectSeq(getAllLeafZones(S, topZones),
                            LAMBDA z : S.zones[z].monitorIndex = monitorIndex)
        d(i) == distancePointToRect2(x, y, rect(S.zones[leaves[i]]))
        best == CHOOSE i \in DOMAIN leaves :
                    \A j \in DOMAIN leaves : d(i) < d(j) \/ (d(i) = d(j) /\ i <= j)
    IN  IF monitorIndex < 0 \/ leaves = << >> THEN NoZone
        ELSE IF d(best) <= HoverThreshold * HoverThreshold THEN leaves[best]
        ELSE NoZone

\* WindowManager._findZoneForWindow and Zone.findZoneForWindow
findZoneForWindow(S, w) ==
    IF S.tilingZone[w] # NoZone /\ containsWindow(S, S.tilingZone[w], w) THEN S.tilingZone[w]
    ELSE FirstLeaf(SelectSeq(getAllLeafZones(S, topZones),
                             LAMBDA z : containsWindow(S, z, w)))

\* WindowManager._trackWindowState: a closed window has no actor
trackWindowState(S, w) ==
    IF w \in S.tracked \/ wlife[w] # "open" THEN S
    ELSE [S EXCEPT !.tracked = @ \cup {w}]

\* WindowManager._updateAllZonesVisibility: the top-level zones of each monitor
updateAllZonesVisibility(S) ==
    LET monitorsWithMaximizedWindows ==
            {S.wmonitor[w] : w \in {v \in Windows : wlife[v] = "open" /\ IsMaxOrFull(v)}}
        top == {topZones[i] : i \in DOMAIN topZones}
    IN  IF S.thrown THEN S
        ELSE [S EXCEPT !.zones = [z \in DOMAIN S.zones |->
                 IF z \in top /\ HasMonitor(S.zones[z])
                 THEN setForceHidden(S.zones[z],
                                     S.zones[z].monitorIndex \in monitorsWithMaximizedWindows)
                 ELSE S.zones[z]]]

\* the frame centre the host reports to _findBestZoneForWindow for a window on a
\* monitor: inside the zone configured there, or outside every zone
CentreOn(monitorIndex, inside) ==
    IF monitorIndex = 0
    THEN (IF inside THEN [x |-> 100, y |-> 100] ELSE [x |-> 390, y |-> 290])
    ELSE (IF inside THEN [x |-> 450, y |-> 100] ELSE [x |-> 790, y |-> 340])

\* WindowManager._findBestZoneForWindow: centre is the centre of the frame the
\* host reports for the window
findBestZoneForWindow(S, centre) == findLeafZoneAt(S, centre.x, centre.y)

\* if (targetZone) targetZone.snapWindow(window)
snapInto(S, targetZone, w) == IF targetZone = NoZone THEN S ELSE snapWindow(S, targetZone, w)

\* this._findZoneForWindow(window) || this._findBestZoneForWindow(window)
zoneOrBest(found, best) == IF found # NoZone THEN found ELSE best

\* the body of allWindows.forEach in _snapExistingWindows, the window tracked
snapTracked(S, w, centre) ==
    IF ~isSnappable(w) THEN S
    ELSE snapInto(S, zoneOrBest(findZoneForWindow(S, w), findBestZoneForWindow(S, centre)), w)

\* the body of allWindows.forEach in _snapExistingWindows
snapExisting(S, w, centre) ==
    IF S.thrown THEN S ELSE snapTracked(trackWindowState(S, w), w, centre)

RECURSIVE snapExistingEach(_, _, _)
snapExistingEach(S, ws, centres) ==
    IF ws = << >> THEN S
    ELSE snapExistingEach(snapExisting(S, Head(ws), CentreOn(S.wmonitor[Head(ws)], centres[Head(ws)])),
                          Tail(ws), centres)

\* the windows of global.get_window_actors(), in the order of their ids
RECURSIVE WindowActors(_)
WindowActors(n) ==
    IF n = 0 THEN << >>
    ELSE WindowActors(n - 1) \o (IF wlife[n] = "open" THEN << n >> ELSE << >>)

\* this._zones.forEach(zone => zone.reorderTabs())
reorderTopZones(S) ==
    LET top == {topZones[i] : i \in DOMAIN topZones}
    IN  IF S.thrown THEN S
        ELSE [S EXCEPT !.zones = [z \in DOMAIN S.zones |->
                 IF z \in top THEN [S.zones[z] EXCEPT !.tabBar = ReorderTabsBar(@)]
                 ELSE S.zones[z]]]

\* WindowManager._snapExistingWindows
snapExistingWindows(S, centres) ==
    reorderTopZones(updateAllZonesVisibility(
        snapExistingEach(S, WindowActors(NumWindows), centres)))

\* the Zone objects reloadConfiguration builds from a configuration
ZonesOf(cfg) == [z \in {<<t>> : t \in DOMAIN cfg} |-> Zone(cfg[z[1]], NoZone)]

TopOf(cfg) == [t \in DOMAIN cfg |-> <<t>>]

\* reloadConfiguration once the old zones are destroyed
rebuildZones(S, centres) ==
    IF S.thrown THEN S
    ELSE snapExistingWindows(
             updateAllZonesVisibility([S EXCEPT !.zones = ZonesOf(ConfigZones)]), centres)

\* WindowManager.reloadConfiguration
reloadConfiguration(S, centres) == rebuildZones(destroyEach(S, topZones), centres)

\* the primary zone of a monitor, as _onWindowCreated looks it up
\* a choice of the zone of a monitor that does not ask for isPrimary
primaryZoneOfMonitor(S, monitorIndex) ==
    LET hit == SelectSeq(topZones, LAMBDA z : S.zones[z].monitorIndex = monitorIndex)
    IN  IF hit = << >> THEN NoZone ELSE hit[1]

primaryZone(S, monitorIndex) ==
    LET hit == SelectSeq(topZones, LAMBDA z : S.zones[z].monitorIndex = monitorIndex
                                            /\ S.zones[z].isPrimary)
    IN  IF hit = << >> THEN NoZone ELSE hit[1]

\* the positions the pointer is sampled at: inside the first and the second half
\* of zone A, just outside A, far from A on its monitor, inside zone B
PointerSamples ==
    { [x |-> 450, y |-> 100], [x |-> 600, y |-> 200], [x |-> 405, y |-> 100],
      [x |-> 790, y |-> 340], [x |-> 100, y |-> 100] }

\* ------------------------------------------------------------- the machine
vars ==
    << winMeta, tabCfg, zones, topZones, tilingZone, originalZone, bypass, wstate, wlife,
       wmonitor, tracked, grab, hoverTimer, focus, lastReq, pending, lastOp,
       drag, pressState, hiddenTabs, clicked, pressDragged, dragsBegun, closedSnapped, enabled, compositor >>

\* the variables of the tab drag-and-drop
dndVars == << drag, pressState, hiddenTabs, clicked, pressDragged, dragsBegun >>

\* the variables no Zone method writes
envVars ==
    << winMeta, tabCfg, topZones, bypass, wstate, wlife, grab, hoverTimer,
       drag, pressState, hiddenTabs, clicked, pressDragged, dragsBegun, closedSnapped, enabled, compositor >>

OpenWindows == {w \in Windows : wlife[w] = "open"}

NoGrab == [window |-> NoWindow, op |-> "NONE", ctrl |-> FALSE]

Op(name, w) == [op |-> name, w |-> w]

IsLeaf(z) == z \in DOMAIN zones /\ Len(zones[z].childZones) = 0

\* a handler or host event is taken up only while at most MaxPending deferred
\* callbacks are outstanding
CanSchedule == Cardinality(pending) <= MaxPending

\* a deferred callback that may itself schedule runs under the same bound
CanRun(t) == t \in pending /\ Cardinality(pending \ {t}) <= MaxPending

\* a split adds two zones
CanSplit == Cardinality(DOMAIN zones) + 2 <= MaxZones

Task(kind, w) == [kind |-> kind, window |-> w, x |-> 0, y |-> 0, width |-> 0, height |-> 0]

WorldAfter(t) == [World EXCEPT !.pending = pending \ {t}]

\* the state a handler leaves behind
Commit(S) ==
    /\ zones' = S.zones
    /\ tilingZone' = S.tilingZone
    /\ originalZone' = S.originalZone
    /\ focus' = S.focus
    /\ lastReq' = S.lastReq
    /\ pending' = S.pending
    /\ wmonitor' = S.wmonitor
    /\ tracked' = S.tracked

\* window metadata of the zone machine: a plain window, a terminal (class "Kgx"),
\* and a window of the excluded application
MachineMeta ==
    [w \in Windows |->
        IF w = 1 THEN [title |-> StrBravo, app |-> App1, wmClass |-> StrFoo]
        ELSE IF w = 2 THEN [title |-> StrAlpha, app |-> App2, wmClass |-> <<75, 103, 120>>]
        ELSE [title |-> StrAlphaLower, app |-> App3, wmClass |-> StrFooLower]]

MachineTabCfg ==
    [groupingCriteria |-> "appName", sortingCriteria |-> "windowTitle", sortingOrder |-> "ASC"]

\* what every Init of the zone machine shares
InitCommon ==
    /\ tilingZone = [w \in Windows |-> NoZone]
    /\ originalZone = [w \in Windows |-> NoZone]
    /\ bypass = [w \in Windows |-> FALSE]
    /\ wstate = [w \in Windows |-> "normal"]
    /\ wmonitor = [w \in Windows |-> 0]
    /\ tracked = {}
    /\ grab = NoGrab
    /\ hoverTimer = FALSE
    /\ focus = NoWindow
    /\ lastReq = NoRequest
    /\ pending = {}
    /\ lastOp = Op("init", NoWindow)
    /\ drag = NoDrag
    /\ pressState = [w \in Windows |-> NewPressState]
    /\ hiddenTabs = {}
    /\ clicked = NoWindow
    /\ pressDragged = {}
    /\ dragsBegun = 0
    /\ closedSnapped = {}
    /\ enabled = TRUE

\* one configured zone, the first NumOpen windows open and in no zone
InitZone ==
    /\ InitCommon
    /\ compositor = Compositor("honour")
    /\ winMeta = MachineMeta
    /\ tabCfg = MachineTabCfg
    /\ zones = ZonesOf(SubSeq(ConfigZones, 1, 1))
    /\ topZones = TopOf(SubSeq(ConfigZones, 1, 1))
    /\ wlife = [w \in Windows |-> IF w <= NumOpen THEN "open" ELSE "unborn"]

\* WindowManager.enable() at the start of a session: the configured zones, no
\* window yet
Init ==
    /\ InitCommon
    /\ compositor = Compositor("honour")
    /\ winMeta = MachineMeta
    /\ tabCfg = MachineTabCfg
    /\ zones = ZonesOf(ConfigZones)
    /\ topZones = TopOf(ConfigZones)
    /\ wlife = [w \in Windows |-> "unborn"]

\* ---- the public operations of a Zone
SnapWindow(z, w) ==
    /\ CanSchedule
    /\ Commit(snapWindow(World, z, w))
    /\ lastOp' = Op("snapWindow", w)
    /\ UNCHANGED envVars

UnsnapWindow(z, w) ==
    /\ CanSchedule
    /\ Commit(unsnapWindow(World, z, w))
    /\ lastOp' = Op("unsnapWindow", w)
    /\ UNCHANGED envVars

Split(z, direction) ==
    /\ CanSchedule
    /\ IsLeaf(z) => CanSplit
    /\ Commit(split(World, z, direction))
    /\ lastOp' = Op("split", NoWindow)
    /\ UNCHANGED envVars

Merge(z) ==
    /\ CanSchedule
    /\ Commit(merge(World, z))
    /\ lastOp' = Op("merge", NoWindow)
    /\ UNCHANGED envVars

\* ---- the deferred steps of snapWindow
\* GLib.idle_add callback of _twoStepMoveResize and the 50 ms callback of snapWindow
RunMoveResize(t) ==
    /\ t \in pending
    /\ t.kind \in {"idle", "timeout"}
    /\ pending' = pending \ {t}
    /\ lastReq' = MoveResizeRequest(t.window, t)
    /\ wmonitor' = [wmonitor EXCEPT ![t.window] =
                       IF MonitorAt(t.x, t.y) >= 0 THEN MonitorAt(t.x, t.y) ELSE @]
    /\ lastOp' = Op(t.kind, t.window)
    /\ UNCHANGED << zones, tilingZone, originalZone, focus, tracked >>
    /\ UNCHANGED envVars

\* ---- the host
\* a window is maximized, made fullscreen or restored by the user or its client
SetWindowState(w, st) ==
    /\ CanSchedule
    /\ wlife[w] = "open"
    /\ wstate[w] # st
    /\ wstate' = [wstate EXCEPT ![w] = st]
    /\ lastOp' = Op("setWindowState", w)
    /\ lastReq' = NoRequest
    /\ UNCHANGED << winMeta, tabCfg, topZones, bypass, wlife, grab, hoverTimer, closedSnapped, enabled, compositor >>
    /\ UNCHANGED dndVars
    /\ UNCHANGED << zones, tilingZone, originalZone, focus, pending, wmonitor, tracked >>

NextZone ==
    \/ \E z \in DOMAIN zones, w \in OpenWindows : SnapWindow(z, w)
    \/ \E z \in DOMAIN zones, w \in OpenWindows : UnsnapWindow(z, w)
    \/ \E z \in DOMAIN zones, d \in {"horizontal", "vertical"} : Split(z, d)
    \/ \E z \in DOMAIN zones : Merge(z)
    \/ \E t \in pending : RunMoveResize(t)
    \/ \E w \in OpenWindows, st \in {"normal", "maximized", "fullscreen"} : SetWindowState(w, st)

SpecZone == InitZone /\ [][NextZone]_vars

\* ---- the handlers of WindowManager
\* whether the frame of each window lies inside a configured zone
Centres == [Windows -> BOOLEAN]

\* display 'window-created': the window appears on a monitor and _onWindowCreated
\* schedules its 200 ms callback
OnWindowCreated(w, m) ==
    /\ CanSchedule
    /\ wlife[w] = "unborn"
    /\ wlife' = [wlife EXCEPT ![w] = "open"]
    /\ wmonitor' = [wmonitor EXCEPT ![w] = m]
    /\ pending' = pending \cup {Task("created", w)}
    /\ lastOp' = Op("windowCreated", w)
    /\ lastReq' = NoRequest
    /\ UNCHANGED << winMeta, tabCfg, topZones, bypass, wstate, grab, hoverTimer, closedSnapped, enabled, compositor >>
    /\ UNCHANGED dndVars
    /\ UNCHANGED << zones, tilingZone, originalZone, focus, tracked >>

\* _onWindowCreated once the window is tracked: into the primary zone of its monitor
snapPrimary(S, w) == snapInto(S, primaryZone(S, S.wmonitor[w]), w)

\* the 200 ms callback of _onWindowCreated
RunCreated(t) ==
    /\ CanRun(t)
    /\ t.kind = "created"
    /\ Commit(IF ~isSnappable(t.window) THEN WorldAfter(t)
              ELSE snapPrimary(trackWindowState(WorldAfter(t), t.window), t.window))
    /\ lastOp' = Op("created", t.window)
    /\ UNCHANGED envVars

\* the host closes a window that is not being dragged
CloseWindow(w) ==
    /\ wlife[w] = "open"
    /\ grab.window # w
    /\ wlife' = [wlife EXCEPT ![w] = "closed"]
    /\ focus' = IF focus = w THEN NoWindow ELSE focus
    /\ lastOp' = Op("closeWindow", w)
    /\ lastReq' = NoRequest
    /\ closedSnapped' = IF \E z \in DOMAIN zones : InSeq(w, zones[z].snappedWindows)
                        THEN closedSnapped \cup {w} ELSE closedSnapped
    /\ UNCHANGED << winMeta, tabCfg, topZones, bypass, wstate, grab, hoverTimer, enabled, compositor >>
    /\ UNCHANGED dndVars
    /\ UNCHANGED << zones, tilingZone, originalZone, pending, wmonitor, tracked >>

\* window 'unmanaged': _untrackWindowState
OnUnmanaged(w) ==
    /\ wlife[w] = "closed"
    /\ w \in tracked
    /\ tracked' = tracked \ {w}
    /\ lastOp' = Op("unmanaged", w)
    /\ lastReq' = NoRequest
    /\ UNCHANGED envVars
    /\ UNCHANGED << zones, tilingZone, originalZone, focus, pending, wmonitor >>

\* if (zone) zone.unsnapWindow(window)
unsnapFrom(S, zone, w) == IF zone = NoZone THEN S ELSE unsnapWindow(S, zone, w)

\* for (const window of previouslyTracked) in _onTrackedWindowsChanged
RECURSIVE untrackClosed(_, _)
untrackClosed(S, ws) ==
    IF ws = << >> \/ S.thrown THEN S
    ELSE untrackClosed(unsnapFrom([S EXCEPT !.tracked = @ \ {Head(ws)}],
                                  findZoneForWindow(S, Head(ws)), Head(ws)),
                       Tail(ws))

RECURSIVE trackEach(_, _)
trackEach(S, ws) ==
    IF ws = << >> THEN S ELSE trackEach(trackWindowState(S, Head(ws)), Tail(ws))

\* the keys of _windowStateSignals that are not in get_window_actors()
RECURSIVE TrackedGone(_)
TrackedGone(n) ==
    IF n = 0 THEN << >>
    ELSE TrackedGone(n - 1) \o (IF n \in tracked /\ wlife[n] # "open" THEN << n >> ELSE << >>)

\* the second half of _onTrackedWindowsChanged: every window with an actor is
\* tracked, then _updateAllZonesVisibility
trackOpen(S) ==
    IF S.thrown THEN S
    ELSE updateAllZonesVisibility(trackEach(S, WindowActors(NumWindows)))

\* WindowManager._onTrackedWindowsChanged
OnTrackedWindowsChanged ==
    /\ CanSchedule
    /\ Commit(trackOpen(untrackClosed(World, TrackedGone(NumWindows))))
    /\ lastOp' = Op("trackedWindowsChanged", NoWindow)
    /\ UNCHANGED envVars

\* actor 'notify::allocation' of a tracked window: onAllocationChanged queues one
\* idle check (checkQueued is the presence of the task)
OnAllocationChanged(w) ==
    /\ CanSchedule
    /\ wlife[w] = "open"
    /\ w \in tracked
    /\ Task("settle", w) \notin pending
    /\ pending' = pending \cup {Task("settle", w)}
    /\ lastOp' = Op("allocationChanged", w)
    /\ lastReq' = NoRequest
    /\ UNCHANGED envVars
    /\ UNCHANGED << zones, tilingZone, originalZone, focus, wmonitor, tracked >>

\* if (zone) zone.restoreSnap(window)
restoreIn(S, zone, w) == IF zone = NoZone THEN S ELSE restoreSnap(S, zone, w)

\* the idle callback once the bars are shown or hidden: a normal window is put
\* back into the frame of its zone
settle(S, w) == IF IsMaxOrFull(w) THEN S ELSE restoreIn(S, findZoneForWindow(S, w), w)

\* the idle callback of onAllocationChanged
RunSettle(t) ==
    /\ CanRun(t)
    /\ t.kind = "settle"
    /\ Commit(IF wlife[t.window] # "open" THEN WorldAfter(t)
              ELSE settle(updateAllZonesVisibility(WorldAfter(t)), t.window))
    /\ lastOp' = Op("settle", t.window)
    /\ UNCHANGED envVars

\* login1 PrepareForSleep(false): the 1000 ms callback is scheduled
OnResume ==
    /\ CanSchedule
    /\ Task("resume", NoWindow) \notin pending
    /\ pending' = pending \cup {Task("resume", NoWindow)}
    /\ lastOp' = Op("resume", NoWindow)
    /\ lastReq' = NoRequest
    /\ UNCHANGED envVars
    /\ UNCHANGED << zones, tilingZone, originalZone, focus, wmonitor, tracked >>

\* the 1000 ms callback: _snapExistingWindows
RunSnapExisting(t, centres) ==
    /\ CanRun(t)
    /\ t.kind = "resume"
    /\ Commit(snapExistingWindows(WorldAfter(t), centres))
    /\ lastOp' = Op("snapExistingWindows", NoWindow)
    /\ UNCHANGED envVars

\* 'monitors-changed', or the configuration file changed: reloadConfiguration
ReloadConfiguration(centres) ==
    /\ CanSchedule
    /\ Commit(reloadConfiguration(World, centres))
    /\ lastOp' = Op("reloadConfiguration", NoWindow)
    /\ UNCHANGED envVars

\* the compositor begins a grab only on a window that has its move and resize
\* functions, which a fullscreen window has not
Grabbable == {w \in OpenWindows : wstate[w] # "fullscreen"}

\* WindowManager._onGrabOpBegin
OnGrabOpBegin(w, op, ctrl) ==
    /\ CanSchedule
    /\ grab = NoGrab
    /\ wlife[w] = "open"
    /\ grab' = [window |-> w, op |-> op, ctrl |-> ctrl]
    /\ LET currentZone == findZoneForWindow(World, w)
       IN  IF ~isSnappable(w)
           THEN UNCHANGED << bypass, originalZone, hoverTimer >>
           ELSE IF ctrl
           THEN /\ bypass' = [bypass EXCEPT ![w] = TRUE]
                /\ hoverTimer' = FALSE
                /\ UNCHANGED originalZone
           ELSE IF op = "MOVING"
           THEN /\ bypass' = [bypass EXCEPT ![w] = FALSE]
                /\ originalZone' = IF currentZone # NoZone
                                   THEN [originalZone EXCEPT ![w] = currentZone]
                                   ELSE originalZone
                /\ hoverTimer' = TRUE
           ELSE /\ bypass' = [bypass EXCEPT ![w] = TRUE]
                /\ hoverTimer' = FALSE
                /\ UNCHANGED originalZone
    /\ lastOp' = Op("grabOpBegin", w)
    /\ lastReq' = NoRequest
    /\ UNCHANGED << winMeta, tabCfg, topZones, wstate, wlife, closedSnapped, enabled, compositor >>
    /\ UNCHANGED dndVars
    /\ UNCHANGED << zones, tilingZone, focus, pending, wmonitor, tracked >>

\* if (!targetZone && originalZone && pointer on the monitor of originalZone)
\*     targetZone = originalZone;  a destroyed zone keeps its monitorIndex
orOriginal(S, near, original, p) ==
    IF /\ near = NoZone
       /\ original # NoZone
       /\ MonitorAt(p.x, p.y) = IF IsDestroyed(original) THEN original[2]
                                ELSE S.zones[original].monitorIndex
    THEN original ELSE near

\* if (originalZone && targetZone && originalZone !== targetZone)
\*     originalZone.unsnapWindow(window)
leaveOriginal(S, w, original, targetZone) ==
    IF original # NoZone /\ targetZone # NoZone /\ targetZone # original
    THEN unsnapWindow(S, original, w) ELSE S

\* the end of _onGrabOpEnd once the target zone is known
dropInto(S, w, original, targetZone) ==
    snapInto(leaveOriginal(S, w, original, targetZone), targetZone, w)

\* the snapping part of _onGrabOpEnd, for a pointer position
grabOpEnd(S, w, p) ==
    dropInto([S EXCEPT !.originalZone[w] = NoZone], w, S.originalZone[w],
             orOriginal(S, zoneOrBest(findLeafZoneAt(S, p.x, p.y),
                                      findNearestZoneWithinThreshold(S, p.x, p.y)),
                        S.originalZone[w], p))

\* the world at the end of a drag: a moved window is on the monitor of the pointer
Dragged(p) ==
    [World EXCEPT !.wmonitor[grab.window] =
        IF grab.op = "MOVING" /\ MonitorAt(p.x, p.y) >= 0 THEN MonitorAt(p.x, p.y) ELSE @]

\* a grab-end that never honours the bypass mark
tilingBypassIgnored(w) == FALSE

\* if (window._tilingBypass)
tilingBypass(w) == bypass[w]

\* WindowManager._onGrabOpEnd: the drag left the window under the pointer
OnGrabOpEnd(p) ==
    /\ grab # NoGrab
    /\ grab' = NoGrab
    /\ IF tilingBypass(grab.window)
       THEN /\ bypass' = [bypass EXCEPT ![grab.window] = FALSE]
            /\ Commit(Dragged(p))
            /\ UNCHANGED hoverTimer
       ELSE IF ~isSnappable(grab.window)
       THEN /\ Commit(Dragged(p))
            /\ UNCHANGED << bypass, hoverTimer >>
       ELSE /\ hoverTimer' = FALSE
            /\ Commit(grabOpEnd(Dragged(p), grab.window, p))
            /\ UNCHANGED bypass
    /\ lastOp' = Op("grabOpEnd", grab.window)
    /\ UNCHANGED << winMeta, tabCfg, topZones, wstate, wlife, closedSnapped, enabled, compositor >>
    /\ UNCHANGED dndVars

Next ==
    \/ \E z \in DOMAIN zones, w \in OpenWindows : SnapWindow(z, w)
    \/ \E z \in DOMAIN zones, w \in OpenWindows : UnsnapWindow(z, w)
    \/ \E z \in DOMAIN zones, d \in {"horizontal", "vertical"} : Split(z, d)
    \/ \E z \in DOMAIN zones : Merge(z)
    \/ \E t \in pending : RunMoveResize(t)
    \/ \E w \in OpenWindows, st \in {"normal", "maximized", "fullscreen"} : SetWindowState(w, st)
    \/ \E w \in 1..NumCreated, m \in 0..(Len(Monitors) - 1) : OnWindowCreated(w, m)
    \/ \E t \in pending : RunCreated(t)
    \/ \E w \in Windows : CloseWindow(w)
    \/ \E w \in Windows : OnUnmanaged(w)
    \/ OnTrackedWindowsChanged
    \/ \E w \in Windows : OnAllocationChanged(w)
    \/ \E t \in pending : RunSettle(t)
    \/ OnResume
    \/ \E t \in pending, c \in Centres : RunSnapExisting(t, c)
    \/ \E c \in Centres : ReloadConfiguration(c)
    \/ \E w \in Grabbable : OnGrabOpBegin(w, "MOVING", FALSE)
    \/ \E p \in PointerSamples : OnGrabOpEnd(p)

Spec == Init /\ [][Next]_vars

\* ---- one tab bar, for every metadata of its windows and every configuration
TabZone == <<1>>

BarTabs == zones[TabZone].tabBar.tabs

BarRoles == zones[TabZone].tabBar.roles

\* a leaf zone whose bar holds no tab yet; the windows' metadata and the tab
\* configuration are drawn from the bounded sets
InitTabs ==
    /\ InitCommon
    /\ compositor = Compositor("honour")
    /\ winMeta \in [Windows -> MetaChoices]
    /\ tabCfg \in TabConfigs
    /\ zones = ZonesOf(SubSeq(ConfigZones, 1, 1))
    /\ topZones = TopOf(SubSeq(ConfigZones, 1, 1))
    /\ wlife = [w \in Windows |-> "open"]

TabStep(bar, name, w) ==
    /\ zones' = [zones EXCEPT ![TabZone].tabBar = bar]
    /\ lastOp' = Op(name, w)
    /\ lastReq' = NoRequest
    /\ UNCHANGED envVars
    /\ UNCHANGED << tilingZone, originalZone, focus, pending, wmonitor, tracked >>

\* TabBar.addTab
TabAdded(w) == TabStep(AddTab(zones[TabZone].tabBar, w), "addTab", w)

\* TabBar.removeTab
TabRemoved(w) == TabStep(RemoveTab(zones[TabZone].tabBar, w), "removeTab", w)

\* Zone.reorderTabs
TabsReordered == TabStep(ReorderTabsBar(zones[TabZone].tabBar), "reorderTabs", NoWindow)

\* window 'notify::title': the tab sets its label anew and the bar keeps its order
TitleChanged(w, title) ==
    /\ title # winMeta[w].title
    /\ [winMeta[w] EXCEPT !.title = title] \in MetaChoices
    /\ winMeta' = [winMeta EXCEPT ![w].title = title]
    /\ lastOp' = Op("titleChanged", w)
    /\ lastReq' = NoRequest
    /\ UNCHANGED << tabCfg, topZones, bypass, wstate, wlife, grab, hoverTimer, closedSnapped, enabled, compositor >>
    /\ UNCHANGED dndVars
    /\ UNCHANGED << zones, tilingZone, originalZone, focus, pending, wmonitor, tracked >>

NextTabs ==
    \/ \E w \in Windows : TabAdded(w)
    \/ \E w \in Windows : TabRemoved(w)
    \/ TabsReordered
    \/ \E w \in Windows, m \in MetaChoices : TitleChanged(w, m.title)

SpecTabs == InitTabs /\ [][NextTabs]_vars

\* ------------------------------------------------------------- TabDND.js
\* const DRAG_THRESHOLD = 10
DragThreshold == 10

\* the zone whose bar holds the tab of a window (this._tabBar of the TabDND the
\* handlers of that tab belong to)
TabBarOf(w) ==
    IF \E z \in DOMAIN zones : InSeq(w, zones[z].tabBar.tabs)
    THEN CHOOSE z \in DOMAIN zones : InSeq(w, zones[z].tabBar.tabs)
    ELSE NoZone

\* TabBar._getGroupedTabs: the contiguous group of the bar that holds the tab,
\* the tab alone when its grouping ID names no group
getGroupedTabs(tabs, w) ==
    LET p == CHOOSE i \in 1..Len(tabs) : tabs[i] = w
        same(i, j) == \A n \in i..j : getGroupingId(tabs[n]) = getGroupingId(w)
        lo == CHOOSE i \in 1..p : same(i, p) /\ (i = 1 \/ ~same(i - 1, p))
        hi == CHOOSE j \in p..Len(tabs) : same(p, j) /\ (j = Len(tabs) \/ ~same(p, j + 1))
    IN  IF getGroupingId(w) \in {Null, StrUnknown} THEN << w >> ELSE SubSeq(tabs, lo, hi)

\* the drag-and-drop state a handler of a tab reads and writes
DndWorld ==
    [ drag |-> drag, pressState |-> pressState, hiddenTabs |-> hiddenTabs,
      pressDragged |-> pressDragged, dragsBegun |-> dragsBegun ]

\* _beginDrag past its guard: dragStarted, the payload, the clone and the
\* placeholder (in no bar yet), the two stage handlers, the dragged tabs hidden
startDrag(D, w) ==
    [D EXCEPT
        !.pressState[w].dragStarted = TRUE,
        !.drag = [ source |-> TabBarOf(w),
                   tabs |-> getGroupedTabs(zones[TabBarOf(w)].tabBar.tabs, w),
                   host |-> NoZone, index |-> 0, connected |-> TRUE ],
        !.hiddenTabs = @ \cup {t \in Windows :
                                  InSeq(t, getGroupedTabs(zones[TabBarOf(w)].tabBar.tabs, w))},
        !.pressDragged = @ \cup {w},
        !.dragsBegun = @ + 1]

\* a _beginDrag that does not look at the slot
beginDragUnguarded(D, w) == startDrag(D, w)

\* TabDND._beginDrag
beginDrag(D, w) == IF D.drag # NoDrag THEN D ELSE startDrag(D, w)

\* the state a handler of a tab leaves behind
CommitDnd(D) ==
    /\ drag' = D.drag
    /\ pressState' = D.pressState
    /\ hiddenTabs' = D.hiddenTabs
    /\ pressDragged' = D.pressDragged
    /\ dragsBegun' = D.dragsBegun

\* the variables the handlers of TabDND leave alone, but for a click or a drop
zoneVars == << zones, tilingZone, originalZone, focus, lastReq, pending, wmonitor, tracked >>

hostVars ==
    << winMeta, tabCfg, topZones, bypass, wstate, wlife, grab, hoverTimer, closedSnapped, enabled, compositor >>

\* a tab that can take pointer events: it is in a visible bar and not hidden
IsReactiveTab(w) ==
    /\ TabBarOf(w) # NoZone
    /\ zones[TabBarOf(w)].tabBar.visible
    /\ w \notin hiddenTabs

\* the tabs whose press has not been released or disarmed, or whose hold timer
\* is armed
PressedTabs == {t \in Windows : pressState[t].details \/ pressState[t].timer}

\* a press, a timer or a motion is taken up while it cannot begin a drag beyond
\* the MaxDrags-th
CanDrag == drag # NoDrag \/ dragsBegun < MaxDrags

\* 'button-press-event' of a tab
TabPress(w, button) ==
    /\ CanSchedule
    /\ IsReactiveTab(w)
    /\ Cardinality(PressedTabs \cup {w}) <= MaxPressed
    /\ CanDrag
    /\ IF button # 1 THEN UNCHANGED vars
       ELSE /\ pressState' = [pressState EXCEPT
                                 ![w] = [timer |-> TRUE, details |-> TRUE, dragStarted |-> FALSE]]
            /\ pressDragged' = pressDragged \ {w}
            /\ clicked' = NoWindow
            /\ lastOp' = Op("tabPress", w)
            /\ UNCHANGED << drag, hiddenTabs, dragsBegun >>
            /\ UNCHANGED zoneVars
            /\ UNCHANGED hostVars

\* the HOLD_TIMEOUT_MS callback of a press
HoldTimeout(w) ==
    /\ CanSchedule
    /\ CanDrag
    /\ pressState[w].timer
    /\ TabBarOf(w) # NoZone
    /\ CommitDnd(IF pressState[w].details
                 THEN beginDrag([DndWorld EXCEPT !.pressState[w].timer = FALSE], w)
                 ELSE [DndWorld EXCEPT !.pressState[w].timer = FALSE])
    /\ clicked' = NoWindow
    /\ lastOp' = Op("holdTimeout", w)
    /\ UNCHANGED zoneVars
    /\ UNCHANGED hostVars

\* 'motion-event' of a tab that has the pointer, dx and dy the distance from the
\* press
TabMotion(w, dx, dy) ==
    /\ CanSchedule
    /\ CanDrag
    /\ IsReactiveTab(w)
    /\ CommitDnd(IF ~pressState[w].details \/ drag # NoDrag THEN DndWorld
                 ELSE IF dx > DragThreshold \/ dy > DragThreshold
                 THEN beginDrag([DndWorld EXCEPT !.pressState[w].timer = FALSE], w)
                 ELSE DndWorld)
    /\ clicked' = NoWindow
    /\ lastOp' = Op("tabMotion", w)
    /\ UNCHANGED zoneVars
    /\ UNCHANGED hostVars

\* a release handler that fires a click whenever the tab is pressed
clickFiresWhenPressed(ps) == ps.details

\* Only fire a click if a drag never actually started
clickFires(ps) == ps.details /\ ~ps.dragStarted

\* 'button-release-event' of a tab; 'tab-clicked' runs Zone.activateWindow
TabRelease(w, button) ==
    /\ CanSchedule
    /\ TabBarOf(w) # NoZone
    /\ IF button # 1 THEN UNCHANGED vars
       ELSE /\ pressState' = [pressState EXCEPT ![w].timer = FALSE, ![w].details = FALSE]
            /\ clicked' = IF clickFires(pressState[w]) THEN w ELSE NoWindow
            /\ Commit(IF clickFires(pressState[w])
                      THEN activateWindow(World, TabBarOf(w), w) ELSE World)
            /\ pressDragged' = pressDragged \ {w}
            /\ lastOp' = Op("tabRelease", w)
            /\ UNCHANGED << drag, hiddenTabs, dragsBegun >>
            /\ UNCHANGED hostVars

\* the children of a bar's container that are visible tabs
VisibleTabs(z) == SelectSeq(zones[z].tabBar.tabs, LAMBDA t : t \notin hiddenTabs)

\* WindowManager._zones as a set
TopZoneSet == {topZones[i] : i \in DOMAIN topZones}

\* TabDND._findTargetTabBar for a pointer over the bar of zone t (or over none):
\* the bars of this._windowManager._zones that are visible
findTargetTabBar(t) == IF t \in TopZoneSet /\ zones[t].tabBar.visible THEN t ELSE NoZone

\* if (currentParent !== newParent): the placeholder leaves its bar and add_child
\* puts it after the last child of the new one
enterBar(dr, target) ==
    IF dr.host = target THEN dr
    ELSE [dr EXCEPT !.host = target,
                    !.index = IF target = NoZone THEN 0 ELSE Len(zones[target].tabBar.tabs)]

\* prevTab && nextTab && prevTab.getGroupingId() === nextTab.getGroupingId()
\*     && draggedId !== prevTab.getGroupingId()
insideOtherGroup(children, dropIndex, draggedId) ==
    /\ dropIndex >= 1 /\ dropIndex < Len(children)
    /\ getGroupingId(children[dropIndex]) = getGroupingId(children[dropIndex + 1])
    /\ draggedId # getGroupingId(children[dropIndex])

\* TabDND._updatePlaceholder, dropIndex the first visible child whose midpoint is
\* right of the pointer.  A rejected index takes the placeholder out of the bar
\* it was in; a placeholder that has just entered the bar stays where add_child
\* put it.
updatePlaceholder(dr, target, dropIndex) ==
    IF target = NoZone THEN enterBar(dr, target)
    ELSE IF insideOtherGroup(VisibleTabs(target), dropIndex, getGroupingId(dr.tabs[1]))
    THEN (IF dr.host = target THEN [dr EXCEPT !.host = NoZone, !.index = 0]
          ELSE enterBar(dr, target))
    ELSE [enterBar(dr, target) EXCEPT !.index = dropIndex]

\* TabDND._onDragMotion: the pointer is over the bar of zone t, or over no bar
DragMotion(t, dropIndex) ==
    /\ CanSchedule
    /\ drag # NoDrag /\ drag.connected
    /\ t # NoZone => dropIndex <= Len(VisibleTabs(t))
    /\ drag' = updatePlaceholder(drag, findTargetTabBar(t), dropIndex)
    /\ clicked' = NoWindow
    /\ lastOp' = Op("dragMotion", drag.tabs[1])
    /\ UNCHANGED << pressState, hiddenTabs, pressDragged, dragsBegun >>
    /\ UNCHANGED zoneVars
    /\ UNCHANGED hostVars

\* Array.prototype.splice(start, 0, ...items): start is clamped to the length
Splice(seq, start, items) ==
    SubSeq(seq, 1, IF start > Len(seq) THEN Len(seq) ELSE start)
        \o items
        \o SubSeq(seq, (IF start > Len(seq) THEN Len(seq) ELSE start) + 1, Len(seq))

\* a drop that reads the index one child too far
dropIndexOfNext(dr) == dr.index + 1

\* children.indexOf(placeholder) at release
dropIndexOf(dr) == dr.index

\* a lookup of the placeholder's bar among the zones of WindowManager._zones
targetZoneOf(dr) == IF dr.host \in TopZoneSet THEN dr.host ELSE NoZone

\* the in-bar reorder: the stationary tabs with the dragged ones spliced in, all
\* re-parented in that order, then _updateGroupStyles
reorderInBar(S, dr) ==
    [S EXCEPT !.zones[dr.source].tabBar =
        WithTabs(@, Splice(SelectSeq(S.zones[dr.source].tabBar.tabs,
                                     LAMBDA t : ~InSeq(t, dr.tabs)),
                           dropIndexOf(dr), dr.tabs))]

\* the bar of a zone with its tabs in the given order
tabsPlaced(S, z, order) ==
    [S EXCEPT !.zones[z].tabBar =
        WithTabs(@, SelectSeq(order, LAMBDA t : InSeq(t, S.zones[z].tabBar.tabs)))]

\* WindowManager.moveWindowsToZone: the windows leave the source zone and are
\* snapped into the target zone, their tabs at the index of the drop
moveWindowsToZone(S, ws, sourceZone, targetZone, index) ==
    tabsPlaced(snapEach(unsnapEach(S, sourceZone, ws), targetZone, ws), targetZone,
               Splice(S.zones[targetZone].tabBar.tabs, index, ws))

\* sourceTabBar._updateGroupStyles() after a cancel
restyled(S, z) == [S EXCEPT !.zones[z].tabBar.roles = UpdateGroupStyles(S.zones[z].tabBar.tabs)]

\* what the drop does to the zones: a reorder, a move or nothing
dropApplied(S, dr) ==
    IF targetZoneOf(dr) = NoZone THEN restyled(S, dr.source)
    ELSE IF targetZoneOf(dr) = dr.source THEN reorderInBar(S, dr)
    ELSE moveWindowsToZone(S, dr.tabs, dr.source, targetZoneOf(dr), dropIndexOf(dr))

dropOutcome(dr, raises) ==
    IF targetZoneOf(dr) = NoZone THEN "cancel"
    ELSE IF targetZoneOf(dr) = dr.source THEN "reorder"
    ELSE IF raises THEN "error" ELSE "move"

\* the press state of the dragged tabs is disarmed; the tabs of moved windows are
\* new tabs
disarmed(ps, dr, moved) ==
    [w \in Windows |->
        IF ~InSeq(w, dr.tabs) THEN ps[w]
        ELSE IF moved THEN NewPressState
        ELSE [ps[w] EXCEPT !.details = FALSE, !.dragStarted = FALSE]]

\* a release that leaves the dragged tabs hidden
shownNone(hidden, dr) == hidden

\* draggedTabs.forEach(t => t.show())
shown(hidden, dr) == hidden \ {t \in Windows : InSeq(t, dr.tabs)}

\* TabDND._onDragRelease.  raises: moveWindowsToZone throws, and the handler is
\* left at the call with the stage handlers disconnected and the placeholder
\* out of its bar.
DragRelease(button, raises) ==
    /\ CanSchedule
    /\ drag # NoDrag /\ drag.connected
    /\ IF button # 1 THEN UNCHANGED vars
       ELSE /\ IF dropOutcome(drag, raises) = "error"
               THEN /\ drag' = [drag EXCEPT !.connected = FALSE, !.host = NoZone, !.index = 0]
                    /\ UNCHANGED << pressState, hiddenTabs, pressDragged >>
                    /\ UNCHANGED zoneVars
               ELSE /\ drag' = NoDrag
                    /\ pressState' = disarmed(pressState, drag, dropOutcome(drag, raises) = "move")
                    /\ hiddenTabs' = shown(hiddenTabs, drag)
                    /\ pressDragged' = pressDragged \ {t \in Windows : InSeq(t, drag.tabs)}
                    /\ Commit(dropApplied(World, drag))
            /\ clicked' = NoWindow
            /\ lastOp' = [ op |-> "dragRelease", w |-> drag.tabs[1], was |-> drag,
                           outcome |-> dropOutcome(drag, raises) ]
            /\ UNCHANGED dragsBegun
            /\ UNCHANGED hostVars

\* TabDND.destroy
DndDestroy ==
    /\ CanSchedule
    /\ drag # NoDrag
    /\ drag' = NoDrag
    /\ hiddenTabs' = shown(hiddenTabs, drag)
    /\ clicked' = NoWindow
    /\ lastOp' = Op("dndDestroy", drag.tabs[1])
    /\ UNCHANGED << pressState, pressDragged, dragsBegun >>
    /\ UNCHANGED zoneVars
    /\ UNCHANGED hostVars

\* window metadata of the tab bars: one window of an application and two of
\* another, which sort after it
DndMeta ==
    [w \in Windows |->
        IF w = 1 THEN [title |-> StrAlpha, app |-> App1, wmClass |-> StrFoo]
        ELSE [title |-> StrBravo, app |-> App2, wmClass |-> StrFooLower]]

\* the two configured zones, every window open and in no zone
InitDnd ==
    /\ InitCommon
    /\ compositor = Compositor("honour")
    /\ winMeta = DndMeta
    /\ tabCfg = MachineTabCfg
    /\ zones = ZonesOf(ConfigZones)
    /\ topZones = TopOf(ConfigZones)
    /\ wlife = [w \in Windows |-> "open"]

\* the session opens with its windows being snapped into the zones, before the
\* first pointer event on a tab
SnapWhileIdle(z, w) ==
    /\ lastOp.op \in {"init", "snapWindow", "idle", "timeout"}
    /\ drag = NoDrag
    /\ PressedTabs = {}
    /\ tilingZone[w] = NoZone
    /\ \A v \in 1..(w - 1) : tilingZone[v] # NoZone
    /\ SnapWindow(z, w)

\* callbacks of one priority run in the order they were scheduled, and an idle
\* callback runs before a 50 ms timeout
IsNextCallback(t) ==
    \A u \in pending \ {t} :
        \/ t.kind = "idle" /\ u.kind = "timeout"
        \/ t.kind = u.kind /\ t.window < u.window

NextDnd ==
    \/ \E z \in DOMAIN zones, w \in Windows : SnapWhileIdle(z, w)
    \/ \E t \in pending : IsNextCallback(t) /\ RunMoveResize(t)
    \/ \E w \in Windows, button \in {1, 3} : TabPress(w, button)
    \/ \E w \in Windows : HoldTimeout(w)
    \/ \E w \in Windows, d \in {DragThreshold, DragThreshold + 1} : TabMotion(w, d, 0)
    \/ \E w \in Windows, button \in {1, 3} : TabRelease(w, button)
    \/ \E t \in TopZoneSet \cup {NoZone}, dropIndex \in 0..NumWindows : DragMotion(t, dropIndex)
    \/ \E button \in {1, 3}, raises \in BOOLEAN : DragRelease(button, raises)
    \/ DndDestroy

SpecDnd == InitDnd /\ [][NextDnd]_vars

\* ------------------------------------------------------------ properties
SeqToSet(seq) == {seq[i] : i \in 1..Len(seq)}

LeafZones == {z \in DOMAIN zones : Len(zones[z].childZones) = 0}

IsPrefix(p, q) == Len(p) <= Len(q) /\ SubSeq(q, 1, Len(p)) = p

Snapped(z) == SeqToSet(zones[z].snappedWindows)

\* C1: in every reachable state every window is in the snapped set of at most
\* one leaf zone of the zone tree
C1_AtMostOneZone ==
    \A w \in Windows : Cardinality({z \in LeafZones : w \in Snapped(z)}) <= 1

\* a drag ended by snapping the window into zone B while zone A is split
C1_Witness ==
    /\ lastOp.op = "grabOpEnd"
    /\ \E w \in Windows : w \in Snapped(<<2>>) /\ tilingZone[w] = <<2>>
    /\ Len(zones[<<1>>].childZones) = 2

\* C2: every zone has no child or exactly two; a zone with children holds no
\* window, and snapWindow called on it puts the window into a leaf below its
\* first child and leaves its own set empty
C2_LeafOrBinaryParent ==
    \A z \in DOMAIN zones :
        /\ Len(zones[z].childZones) \in {0, 2}
        /\ Len(zones[z].childZones) = 2 =>
              /\ zones[z].snappedWindows = << >>
              /\ \A w \in OpenWindows :
                    ~IsMaxOrFull(w) =>
                        LET S == snapWindow(World, z, w)
                        IN  /\ S.zones[z].snappedWindows = << >>
                            /\ \E l \in DOMAIN S.zones :
                                  /\ IsPrefix(zones[z].childZones[1], l)
                                  /\ Len(S.zones[l].childZones) = 0
                                  /\ InSeq(w, S.zones[l].snappedWindows)

\* a window was snapped and sits in the first leaf of a twice split zone
C2_Witness ==
    /\ lastOp.op = "snapWindow"
    /\ <<1, 1, 1>> \in DOMAIN zones
    /\ tilingZone[lastOp.w] = <<1, 1, 1>>
    /\ lastOp.w \in Snapped(<<1, 1, 1>>)

\* C3: the children of a split zone partition its rectangle: along the split
\* dimension n the first child has floor(n/2) and the second the rest, starting
\* where the first ends; the other dimension and the origin are the parent's
C3_ChildrenPartition ==
    \A z \in DOMAIN zones :
        Len(zones[z].childZones) = 2 =>
            LET p == zones[z]
                a == zones[p.childZones[1]]
                b == zones[p.childZones[2]]
            IN  /\ p.splitDirection \in {"horizontal", "vertical"}
                /\ a.monitorIndex = p.monitorIndex /\ b.monitorIndex = p.monitorIndex
                /\ a.x = p.x /\ a.y = p.y
                /\ p.splitDirection = "vertical" =>
                      /\ 2 * a.width <= p.width /\ p.width < 2 * a.width + 2
                      /\ b.width = p.width - a.width
                      /\ b.x = a.x + a.width /\ b.y = p.y
                      /\ a.height = p.height /\ b.height = p.height
                /\ p.splitDirection = "horizontal" =>
                      /\ 2 * a.height <= p.height /\ p.height < 2 * a.height + 2
                      /\ b.height = p.height - a.height
                      /\ b.y = a.y + a.height /\ b.x = p.x
                      /\ a.width = p.width /\ b.width = p.width

\* a split just made a child of odd width a parent: a nested split of an odd n
C3_Witness ==
    /\ lastOp.op = "split"
    /\ \E z \in DOMAIN zones :
          /\ Len(zones[z].childZones) = 2
          /\ zones[z].parentZone # NoZone
          /\ zones[z].splitDirection = "vertical"
          /\ zones[z].width % 2 = 1

\* C4: split followed at once by merge on the same leaf leaves it a leaf with the
\* snapped set it had
C4_SplitMergeRestores ==
    \A z \in LeafZones, d \in {"horizontal", "vertical"} :
        LET S == merge(split(World, z, d), z)
        IN  /\ Len(S.zones[z].childZones) = 0
            /\ SeqToSet(S.zones[z].snappedWindows) = Snapped(z)

\* the windows snapped in the leaves below a zone
DescendantWindows(z) ==
    {w \in Windows : \E l \in LeafZones : IsPrefix(z, l) /\ l # z /\ w \in Snapped(l)}

\* C5: merge on a parent none of whose descendants' windows is maximized or
\* fullscreen leaves it a leaf holding exactly the windows of all its
\* descendant leaves, each of them tagged with it
C5_MergeCollectsDescendants ==
    \A z \in DOMAIN zones :
        (Len(zones[z].childZones) = 2 /\ \A w \in DescendantWindows(z) : ~IsMaxOrFull(w)) =>
            LET S == merge(World, z)
            IN  /\ Len(S.zones[z].childZones) = 0
                /\ SeqToSet(S.zones[z].snappedWindows) = DescendantWindows(z)
                /\ \A w \in DescendantWindows(z) : S.tilingZone[w] = z

\* C6: a snapWindow of a maximized or fullscreen window changes no zone (snapped
\* sets, active windows, histories, tab lists), not the window's zone, and
\* requests no move or resize, now or deferred
C6_SnapOfMaximizedIsNoOp ==
    [][(lastOp'.op = "snapWindow" /\ IsMaxOrFull(lastOp'.w)) =>
          /\ UNCHANGED << zones, tilingZone, originalZone, focus, pending, wmonitor >>
          /\ lastReq' = NoRequest]_vars

\* a snap of a maximized window that sits in a zone was declined
C6_Witness ==
    /\ lastOp.op = "snapWindow"
    /\ wstate[lastOp.w] = "maximized"
    /\ tilingZone[lastOp.w] # NoZone
    /\ Cardinality(LeafZones) > 1

\* the gap of a zone on one side: its per-side gap, else its single gap
SideGap(zone, side) == IF zone.gaps # NoGaps THEN zone.gaps[side] ELSE zone.gap

\* C7: snapWindow of a normal, unzoned window of a class without size increments
\* into an empty leaf Z requests (relative to Z's monitor) x = Z.x + gap.left,
\* y = Z.y + gap.top + tabBarHeight, at once as a move and deferred with
\* width = Z.width - gap.left - gap.right and
\* height = Z.height - gap.top - gap.bottom - tabBarHeight; Z's bar then has the
\* one tab of W and W is Z's active window
C7_SnapIntoEmptyLeaf ==
    [][\A w \in Windows, z \in DOMAIN zones :
          ( /\ lastOp'.op = "snapWindow" /\ lastOp'.w = w
            /\ ~IsMaxOrFull(w) /\ tilingZone[w] = NoZone /\ ~isTerminal(w)
            /\ tilingZone'[w] = z
            /\ Len(zones[z].childZones) = 0 /\ zones[z].snappedWindows = << >> ) =>
          LET Z == zones[z]
              m == Monitors[Z.monitorIndex + 1]
              frame == [ x |-> Z.x + SideGap(Z, "left"),
                         y |-> Z.y + SideGap(Z, "top") + TabBarHeight,
                         width |-> Z.width - SideGap(Z, "left") - SideGap(Z, "right"),
                         height |-> Z.height - SideGap(Z, "top") - SideGap(Z, "bottom")
                                    - TabBarHeight ]
          IN  /\ lastReq'.kind = "move_frame" /\ lastReq'.window = w
              /\ lastReq'.x - m.x = frame.x /\ lastReq'.y - m.y = frame.y
              /\ \A k \in {"idle", "timeout"} :
                    \E t \in pending' :
                        /\ t.kind = k /\ t.window = w
                        /\ t.x - m.x = frame.x /\ t.y - m.y = frame.y
                        /\ t.width = frame.width /\ t.height = frame.height
              /\ zones'[z].tabBar.tabs = << w >>
              /\ zones'[z].activeWindow = w]_vars

\* the plain window was snapped into an empty second child
C7_Witness ==
    /\ lastOp.op = "snapWindow"
    /\ ~isTerminal(lastOp.w)
    /\ lastReq.kind = "move_frame"
    /\ <<1, 2>> \in DOMAIN zones
    /\ zones[<<1, 2>>].tabBar.tabs = << lastOp.w >>

\* C8: after reorderTabs the tabs of each non-null grouping ID are consecutive
C8_GroupsContiguous ==
    lastOp.op = "reorderTabs" =>
        \A i \in 1..Len(BarTabs), k \in 1..Len(BarTabs) :
            (i < k /\ getGroupingId(BarTabs[i]) # Null
                   /\ getGroupingId(BarTabs[i]) = getGroupingId(BarTabs[k])) =>
                \A j \in i..k : getGroupingId(BarTabs[j]) = getGroupingId(BarTabs[i])

\* the pair a tab is ordered by, compared without regard to case
KeyPair(w) == << LowerOrEmpty(getGroupSortKey(w)), LowerOrEmpty(getSortKey(w)) >>

PairLess(a, b) == StrLess(a[1], b[1]) \/ (a[1] = b[1] /\ StrLess(a[2], b[2]))

\* a must come before b under the configured order
Before(a, b) ==
    IF tabCfg.sortingOrder = "DESC" THEN PairLess(KeyPair(b), KeyPair(a))
    ELSE PairLess(KeyPair(a), KeyPair(b))

PositionIn(seq, x) == CHOOSE i \in 1..Len(seq) : seq[i] = x

\* C9: reorderTabs yields a permutation of the tabs ordered by (group sort key,
\* sort key) without regard to case, both comparisons reversed for DESC, tabs of
\* equal pairs in their previous relative order
C9_ReorderIsStableSort ==
    [][lastOp'.op = "reorderTabs" =>
          LET old == BarTabs
              new == BarTabs'
          IN  /\ Len(new) = Len(old) /\ SeqToSet(new) = SeqToSet(old)
              /\ \A i \in 1..Len(new), j \in 1..Len(new) :
                    i < j => new[i] # new[j] /\ ~Before(new[j], new[i])
              /\ \A i \in 1..Len(old), j \in 1..Len(old) :
                    (i < j /\ KeyPair(old[i]) = KeyPair(old[j])) =>
                        PositionIn(new, old[i]) < PositionIn(new, old[j])]_vars

\* two tabs of one application titled Alpha and Bravo, sorted by window title
\* ascending, stand as [Alpha, Bravo] after a reorder
C9_Witness ==
    /\ lastOp.op = "reorderTabs"
    /\ tabCfg.sortingCriteria = "windowTitle" /\ tabCfg.sortingOrder = "ASC"
    /\ Len(BarTabs) = 2
    /\ winMeta[BarTabs[1]].title = StrAlpha /\ winMeta[BarTabs[2]].title = StrBravo
    /\ winMeta[BarTabs[1]].app = winMeta[BarTabs[2]].app
    /\ BarTabs[2] < BarTabs[1]

\* C10: once the roles are recomputed, a tab whose grouping ID is null or
\* "unknown" is solo
C10_UnknownIsSolo ==
    lastOp.op \in {"addTab", "removeTab", "reorderTabs"} =>
        \A i \in 1..Len(BarTabs) :
            getGroupingId(BarTabs[i]) \in {Null, StrUnknown} => BarRoles[i] = "solo"

\* a grouping ID that names a group: neither null nor "unknown"
KnownId(id) == id # Null /\ id # StrUnknown

SameAsLeft(i) == i > 1 /\ getGroupingId(BarTabs[i - 1]) = getGroupingId(BarTabs[i])

SameAsRight(i) ==
    i < Len(BarTabs) /\ getGroupingId(BarTabs[i + 1]) = getGroupingId(BarTabs[i])

\* C11: once the roles are recomputed, a tab with a known grouping ID is
\* group-start iff its ID is its right neighbour's and not its left neighbour's,
\* group-middle iff it is both neighbours', group-end iff it is its left
\* neighbour's and not its right neighbour's, and solo otherwise; a maximal run
\* of k >= 2 equal known IDs reads start, k-2 middles, end
C11_RolesFollowNeighbours ==
    lastOp.op \in {"addTab", "removeTab", "reorderTabs"} =>
        /\ Len(BarRoles) = Len(BarTabs)
        /\ \A i \in 1..Len(BarTabs) :
              KnownId(getGroupingId(BarTabs[i])) =>
                  /\ BarRoles[i] = "start" <=> (SameAsRight(i) /\ ~SameAsLeft(i))
                  /\ BarRoles[i] = "middle" <=> (SameAsRight(i) /\ SameAsLeft(i))
                  /\ BarRoles[i] = "end" <=> (SameAsLeft(i) /\ ~SameAsRight(i))
                  /\ BarRoles[i] = "solo" <=> (~SameAsLeft(i) /\ ~SameAsRight(i))
        /\ \A i \in 1..Len(BarTabs), k \in 1..Len(BarTabs) :
              ( /\ i < k
                /\ KnownId(getGroupingId(BarTabs[i]))
                /\ \A j \in i..k : getGroupingId(BarTabs[j]) = getGroupingId(BarTabs[i])
                /\ ~SameAsLeft(i) /\ ~SameAsRight(k) ) =>
                  /\ BarRoles[i] = "start" /\ BarRoles[k] = "end"
                  /\ \A j \in (i + 1)..(k - 1) : BarRoles[j] = "middle"

\* three tabs of one window class stand as start, middle, end
C11_Witness ==
    /\ lastOp.op = "addTab"
    /\ Len(BarTabs) = 3
    /\ KnownId(getGroupingId(BarTabs[1]))
    /\ BarRoles = << "start", "middle", "end" >>

\* the handlers that end by (or run) _updateAllZonesVisibility
RefreshedVisibility ==
    \/ lastOp.op \in {"trackedWindowsChanged", "snapExistingWindows", "reloadConfiguration"}
    \/ lastOp.op = "settle" /\ wlife[lastOp.w] = "open"

\* a window of the monitor is maximized or fullscreen
MonitorBlocked(m) == \E w \in OpenWindows : IsMaxOrFull(w) /\ wmonitor[w] = m

\* C12: once the window manager has refreshed visibility, the bar of every leaf
\* zone (top-level or made by a split) is visible iff the zone holds a window
\* and no window on its monitor is maximized or fullscreen
C12_LeafBarVisibility ==
    RefreshedVisibility =>
        \A z \in LeafZones :
            zones[z].tabBar.visible <=>
                (zones[z].snappedWindows # << >> /\ ~MonitorBlocked(zones[z].monitorIndex))

\* C13: when the state change of a window W snapped in zone Z has settled, Z's
\* bar is hidden if W is maximized; if W is back to normal and no window on Z's
\* monitor is maximized or fullscreen, W's frame in Z is requested again and Z's
\* bar is visible
C13_MaximizeHidesRestoreShows ==
    [][\A w \in Windows, z \in DOMAIN zones :
          ( /\ lastOp'.op = "settle" /\ lastOp'.w = w /\ wlife[w] = "open"
            /\ Len(zones[z].childZones) = 0
            /\ InSeq(w, zones[z].snappedWindows) ) =>
              /\ wstate[w] = "maximized" => ~zones'[z].tabBar.visible
              /\ (wstate[w] = "normal" /\ ~MonitorBlocked(zones[z].monitorIndex)) =>
                    /\ lastReq'.kind = "move_frame" /\ lastReq'.window = w
                    /\ lastReq'.x = SnapFrame(zones[z], w).x
                    /\ lastReq'.y = SnapFrame(zones[z], w).y
                    /\ zones'[z].tabBar.visible]_vars


\* the events of a tab that can ask for a drag
TabEvents == {"tabPress", "holdTimeout", "tabMotion"}

\* C14: while a drag is active, a press, an expired hold timer or a pointer motion
\* on any tab begins no second drag and leaves the payload, the source bar, the
\* placeholder and the hidden tabs of the active drag as they are
C14_AtMostOneDrag ==
    [][(drag # NoDrag /\ lastOp'.op \in TabEvents)
          => (drag' = drag /\ hiddenTabs' = hiddenTabs /\ dragsBegun' = dragsBegun)]_vars

\* the hold timer of a pressed tab outside the payload has expired during a drag
C14_Witness ==
    /\ drag # NoDrag
    /\ lastOp.op = "holdTimeout"
    /\ ~InSeq(lastOp.w, drag.tabs)
    /\ pressState[lastOp.w].details
    /\ ~pressState[lastOp.w].dragStarted


\* C15: the release handler of a tab whose press is armed emits 'tab-clicked' for
\* the tab's window exactly when that press began no drag, and it touches no
\* drag; the release that ends a drag emits no click and begins no drag, whether
\* the tab's own release handler has run before it or runs after it
C15_ClickIffNoDragStarted ==
    [][/\ lastOp'.op = "tabRelease" =>
            /\ clicked' \in {lastOp'.w, NoWindow}
            /\ clicked' = lastOp'.w <=>
                   (pressState[lastOp'.w].details /\ lastOp'.w \notin pressDragged)
            /\ drag' = drag
            /\ dragsBegun' = dragsBegun
       /\ lastOp'.op = "dragRelease" =>
            /\ clicked' = NoWindow
            /\ dragsBegun' = dragsBegun
            /\ drag' # NoDrag => drag'.tabs = drag.tabs
            /\ lastOp'.outcome # "error" =>
                   \A w \in Windows : InSeq(w, drag.tabs) =>
                       ~pressState'[w].details /\ ~pressState'[w].dragStarted]_vars

\* the tab whose press began the drag is released before the drag's own release
\* handler has run, and no click is emitted
C15_Witness ==
    /\ lastOp.op = "tabRelease"
    /\ clicked = NoWindow
    /\ drag # NoDrag
    /\ InSeq(lastOp.w, drag.tabs)
    /\ pressState[lastOp.w].dragStarted
    /\ ~pressState[lastOp.w].details


\* the tabs shown left of and right of child index k of a bar whose children are
\* tabs: the hidden tabs of a drag take no room
ShownBefore(tabs, k) == SelectSeq(SubSeq(tabs, 1, k), LAMBDA t : t \notin hiddenTabs)

ShownAfter(tabs, k) == SelectSeq(SubSeq(tabs, k + 1, Len(tabs)), LAMBDA t : t \notin hiddenTabs)

\* two shown neighbours that share a grouping ID other than the dragged one
SplitsGroup(before, after, draggedId) ==
    /\ before # << >> /\ after # << >>
    /\ getGroupingId(before[Len(before)]) = getGroupingId(after[1])
    /\ getGroupingId(after[1]) # draggedId

\* the placeholder of the active drag stands inside another group
PlaceholderSplitsGroup ==
    /\ drag # NoDrag /\ drag.host # NoZone
    /\ SplitsGroup(ShownBefore(zones[drag.host].tabBar.tabs, drag.index),
                   ShownAfter(zones[drag.host].tabBar.tabs, drag.index),
                   getGroupingId(drag.tabs[1]))

\* the tabs of a bar left of the first and right of the last of the given tabs
LeftOfBlock(tabs, block) ==
    SubSeq(tabs, 1, (CHOOSE i \in 1..Len(tabs) : tabs[i] = block[1]) - 1)

RightOfBlock(tabs, block) ==
    SubSeq(tabs, (CHOOSE i \in 1..Len(tabs) : tabs[i] = block[Len(block)]) + 1, Len(tabs))

\* the group a completed drop has just put into a bar stands inside another group
DropSplitsGroup ==
    /\ lastOp.op = "dragRelease"
    /\ lastOp.outcome \in {"reorder", "move"}
    /\ SplitsGroup(LeftOfBlock(zones[lastOp.was.host].tabBar.tabs, lastOp.was.tabs),
                   RightOfBlock(zones[lastOp.was.host].tabBar.tabs, lastOp.was.tabs),
                   getGroupingId(lastOp.was.tabs[1]))

\* C16: neither the placeholder of a drag in progress nor the group a completed
\* drop has put into a bar stands strictly between two tabs that share a
\* grouping ID other than that of the dragged group
C16_NeverInsideAnotherGroup == ~PlaceholderSplitsGroup /\ ~DropSplitsGroup

\* the part of C16 about completed drops
C16_DropNeverInsideAnotherGroup == ~DropSplitsGroup

\* a reorder or a move has put the dragged group next to a group of two
C16_DropWitness ==
    /\ lastOp.op = "dragRelease"
    /\ lastOp.outcome \in {"reorder", "move"}
    /\ Len(zones[lastOp.was.host].tabBar.tabs) = 3
    /\ Len(lastOp.was.tabs) = 1


\* the tabs of a sequence that are not among the dragged ones, in their order
NonDragged(tabs, dragged) == SelectSeq(tabs, LAMBDA t : ~InSeq(t, dragged))

\* the dragged tabs stand as one block at position k (counted from 0) of the
\* result and the other tabs keep their order
BlockAt(result, old, dragged, k) ==
    /\ Len(result) = Len(old)
    /\ NonDragged(result, dragged) = NonDragged(old, dragged)
    /\ k + Len(dragged) <= Len(result)
    /\ SubSeq(result, k + 1, k + Len(dragged)) = dragged

\* a release with the placeholder in the source bar
IsReorder == drag # NoDrag /\ lastOp'.op = "dragRelease" /\ lastOp'.outcome = "reorder"

\* the frame of a reorder: the snapped windows of the zone stay and the dragged
\* tabs are shown
ReorderFrame ==
    /\ SeqToSet(zones'[drag.source].snappedWindows) = SeqToSet(zones[drag.source].snappedWindows)
    /\ \A w \in Windows : InSeq(w, drag.tabs) => w \notin hiddenTabs'

\* C17: a release with the placeholder at child index k of the source bar leaves
\* the non-dragged tabs in their order with the dragged tabs as one block at
\* position k, the snapped windows of the zone unchanged and the dragged tabs
\* shown
C17_ReorderAtPlaceholderIndex ==
    [][IsReorder =>
          /\ BlockAt(zones'[drag.source].tabBar.tabs, zones[drag.source].tabBar.tabs,
                     drag.tabs, drag.index)
          /\ ReorderFrame]_vars

\* C17 for the releases whose placeholder index is a position of the stationary
\* tabs
C17_ReorderAtIndexInRange ==
    [][(IsReorder /\ drag.index <= Len(NonDragged(zones[drag.source].tabBar.tabs, drag.tabs))) =>
          /\ BlockAt(zones'[drag.source].tabBar.tabs, zones[drag.source].tabBar.tabs,
                     drag.tabs, drag.index)
          /\ ReorderFrame]_vars

\* C17 with k read as the number of tabs shown left of the placeholder
C17_ReorderAtShownPosition ==
    [][IsReorder =>
          BlockAt(zones'[drag.source].tabBar.tabs, zones[drag.source].tabBar.tabs,
                  drag.tabs, Len(ShownBefore(zones[drag.source].tabBar.tabs, drag.index)))]_vars

\* a reorder has moved a dragged tab to another position of its bar
C17_ReorderWitness ==
    /\ lastOp.op = "dragRelease" /\ lastOp.outcome = "reorder"
    /\ lastOp.was.index <= Len(NonDragged(zones[lastOp.was.source].tabBar.tabs, lastOp.was.tabs))
    /\ zones[lastOp.was.source].tabBar.tabs # << 1, 2, 3 >>
    /\ Len(zones[lastOp.was.source].tabBar.tabs) = 3


\* a release with the placeholder in the bar of another zone, the move done
IsMove == drag # NoDrag /\ lastOp'.op = "dragRelease" /\ lastOp'.outcome = "move"

IsCancel == drag # NoDrag /\ drag.host = NoZone /\ lastOp'.op = "dragRelease"

\* C19: a release while no bar hosts the placeholder changes no zone's snapped
\* windows, active window or tab order, shows every dragged tab where it was and
\* empties the slot of the active drag
C19_CancelChangesNothing ==
    [][IsCancel =>
          /\ \A z \in DOMAIN zones :
                 /\ z \in DOMAIN zones'
                 /\ zones'[z].snappedWindows = zones[z].snappedWindows
                 /\ zones'[z].activeWindow = zones[z].activeWindow
                 /\ zones'[z].tabBar.tabs = zones[z].tabBar.tabs
          /\ DOMAIN zones' = DOMAIN zones
          /\ tilingZone' = tilingZone
          /\ \A w \in Windows : InSeq(w, drag.tabs) => w \notin hiddenTabs'
          /\ drag' = NoDrag]_vars

\* a group of two has been dropped outside every bar
C19_Witness ==
    /\ lastOp.op = "dragRelease" /\ lastOp.outcome = "cancel"
    /\ lastOp.was.host = NoZone
    /\ Len(lastOp.was.tabs) = 2
    /\ drag = NoDrag
    /\ hiddenTabs = {}


\* a release whose call of moveWindowsToZone raises
IsFailedRelease == drag # NoDrag /\ lastOp'.op = "dragRelease" /\ lastOp'.outcome = "error"

\* C20: a release whose drop raises an error still ends the drag as a cancel: the
\* slot of the active drag is empty, every dragged tab is shown, the placeholder
\* is in no bar, and no zone's windows or tab order have changed
C20_ErrorEndsAsCancel ==
    [][IsFailedRelease =>
          /\ drag' = NoDrag
          /\ \A w \in Windows : InSeq(w, drag.tabs) => w \notin hiddenTabs'
          /\ zones' = zones
          /\ tilingZone' = tilingZone]_vars

\* the part of C20 the handler keeps: the zones are as they were and the
\* placeholder has left its bar
C20_ErrorChangesNoZone ==
    [][IsFailedRelease =>
          /\ zones' = zones
          /\ tilingZone' = tilingZone
          /\ drag'.host = NoZone]_vars

\* after a failed release no press, timer or motion begins a drag while
\* TabDND.destroy has not run
C20_StuckUntilDestroy ==
    [][(drag # NoDrag /\ ~drag.connected /\ lastOp'.op # "dndDestroy")
          => (drag' = drag /\ dragsBegun' = dragsBegun /\ hiddenTabs' = hiddenTabs)]_vars

\* a tab is pressed and held to its timeout after a failed release
C20_StuckWitness ==
    /\ drag # NoDrag /\ ~drag.connected
    /\ lastOp.op = "holdTimeout"
    /\ pressState[lastOp.w].details


\* the zone _onGrabOpEnd resolves for a pointer position: the leaf under the
\* pointer, else the nearest leaf within the threshold on the pointer's monitor,
\* else the original zone when the drop is on its monitor
ResolvedTarget(p) ==
    orOriginal(World, zoneOrBest(findLeafZoneAt(World, p.x, p.y),
                                 findNearestZoneWithinThreshold(World, p.x, p.y)),
               originalZone[grab.window], p)

\* the step is the end of a move grab of a snappable window that is not
\* bypassed, for the pointer position p
IsPlacingGrabEnd(p) ==
    /\ grab # NoGrab /\ grab.op = "MOVING"
    /\ lastOp'.op = "grabOpEnd"
    /\ ~bypass[grab.window]
    /\ isSnappable(grab.window)
    /\ zones' = grabOpEnd(Dragged(p), grab.window, p).zones
    /\ tilingZone' = grabOpEnd(Dragged(p), grab.window, p).tilingZone

\* the zones whose snapped set holds the window after the step
HoldersAfter(w) == {z \in DOMAIN zones' : InSeq(w, zones'[z].snappedWindows)}

\* C21: a move grab of a snappable window that is not bypassed and whose target
\* resolution yields a zone T ends with the window snapped in T and in no other
\* zone
C21_GrabEndSnapsIntoTarget ==
    [][\A p \in PointerSamples :
          (IsPlacingGrabEnd(p) /\ ResolvedTarget(p) # NoZone)
              => HoldersAfter(grab.window) = {ResolvedTarget(p)}]_vars

\* C21 for a window that is not maximized at the drop and refers to no zone
\* destroyed by a merge or a reload, and a target that is a leaf of the zone tree
C21_GrabEndSnapsNormalIntoLeaf ==
    [][\A p \in PointerSamples :
          (/\ IsPlacingGrabEnd(p)
           /\ ~IsMaxOrFull(grab.window)
           /\ ~IsDestroyed(originalZone[grab.window])
           /\ ~IsDestroyed(tilingZone[grab.window])
           /\ ResolvedTarget(p) \in DOMAIN zones
           /\ IsLeaf(ResolvedTarget(p)))
              => HoldersAfter(grab.window) = {ResolvedTarget(p)}]_vars


\* C22: a move grab of a snappable window that is not bypassed and whose target
\* resolution yields no zone ends with the window in no zone's snapped set, the
\* zone it was in when the grab began included
C22_GrabEndWithoutTargetUnzones ==
    [][\A p \in PointerSamples :
          (IsPlacingGrabEnd(p) /\ ResolvedTarget(p) = NoZone)
              => HoldersAfter(grab.window) = {}]_vars

\* C22 for a window that was in no zone when the grab began
C22_UnzonedStaysUnzoned ==
    [][\A p \in PointerSamples :
          (/\ IsPlacingGrabEnd(p) /\ ResolvedTarget(p) = NoZone
           /\ \A z \in DOMAIN zones : ~InSeq(grab.window, zones[z].snappedWindows))
              => HoldersAfter(grab.window) = {}]_vars

\* without a target the grab-end changes no zone
C22_NoTargetChangesNoZone ==
    [][\A p \in PointerSamples :
          (IsPlacingGrabEnd(p) /\ ResolvedTarget(p) = NoZone)
              => (zones' = zones /\ tilingZone' = tilingZone)]_vars

\* ---- grabs of every kind, with and without the modifier, in a session whose
\* windows are plain, dialogs or of the excluded application
GrabOps == {"MOVING", "RESIZING"}

\* the windows the session has created
Created == {w \in Windows : wlife[w] # "unborn"}

\* display 'window-created' for a window of any kind
OnAnyWindowCreated(w, m) ==
    /\ Cardinality(Created) < NumCreated
    /\ OnWindowCreated(w, m)

NextGrab ==
    \/ \E w \in Windows, m \in 0..(Len(Monitors) - 1) : OnAnyWindowCreated(w, m)
    \/ \E t \in pending : RunCreated(t)
    \/ \E t \in pending : RunMoveResize(t)
    \/ \E w \in OpenWindows, st \in {"normal", "maximized", "fullscreen"} : SetWindowState(w, st)
    \/ OnResume
    \/ \E t \in pending, c \in Centres : RunSnapExisting(t, c)
    \/ \E c \in Centres : ReloadConfiguration(c)
    \/ \E w \in Grabbable, op \in GrabOps, ctrl \in BOOLEAN : OnGrabOpBegin(w, op, ctrl)
    \/ \E p \in PointerSamples : OnGrabOpEnd(p)
    \/ \E w \in Windows : OnAllocationChanged(w)
    \/ \E t \in pending : RunSettle(t)

SpecGrab == Init /\ [][NextGrab]_vars

\* the step is the end of a grab that began with CONTROL held or is not a move
IsBypassedGrabEnd ==
    /\ grab # NoGrab
    /\ lastOp'.op = "grabOpEnd"
    /\ (grab.ctrl \/ grab.op # "MOVING")

\* what a zone shows of its windows: the snapped set, the active window, the tabs
Holdings(zs) ==
    [z \in DOMAIN zs |-> << zs[z].snappedWindows, zs[z].activeWindow, zs[z].tabBar >>]

Forgotten(w) ==
    /\ \A z \in DOMAIN zones : ~InSeq(w, zones[z].snappedWindows)
    /\ \A z \in DOMAIN zones : ~InSeq(w, zones[z].tabBar.tabs)
    /\ w \notin tracked

ForgottenAfter(w) ==
    /\ \A z \in DOMAIN zones' : ~InSeq(w, zones'[z].snappedWindows)
    /\ \A z \in DOMAIN zones' : ~InSeq(w, zones'[z].tabBar.tabs)
    /\ w \notin tracked'

\* C24: a window snapped in a zone leaves the window list: once
\* 'tracked-windows-changed' is handled, it is in no zone's snapped set, has no
\* tab and is not tracked, whether its 'unmanaged' signal came before the
\* handler or not
C24_ClosedWindowForgotten ==
    (lastOp.op = "trackedWindowsChanged") => \A w \in closedSnapped : Forgotten(w)

\* C24 for a window whose 'unmanaged' signal has not come when the handler
\* runs, and whose zone still exists
C24_ClosedTrackedWindowForgotten ==
    [][(lastOp'.op = "trackedWindowsChanged")
          => \A w \in closedSnapped :
                 (w \in tracked /\ ~IsDestroyed(tilingZone[w])) => ForgottenAfter(w)]_vars

\* the handler leaves alone a window whose 'unmanaged' signal came first
C24_UnmanagedFirstKeepsItsZone ==
    [][(lastOp'.op = "trackedWindowsChanged")
          => \A w \in closedSnapped :
                 (w \notin tracked)
                     => \A z \in DOMAIN zones :
                            InSeq(w, zones[z].snappedWindows)
                                => (z \in DOMAIN zones' /\ InSeq(w, zones'[z].snappedWindows))]_vars

\* the leaf a snap into zone z ends in: z, or the leaf under its first child
RECURSIVE firstLeafUnder(_)
firstLeafUnder(z) ==
    IF Len(zones[z].childZones) = 0 THEN z ELSE firstLeafUnder(zones[z].childZones[1])

\* the configured zones of a monitor that are marked primary
PrimaryZonesOf(m) ==
    {z \in {topZones[i] : i \in DOMAIN topZones} :
        zones[z].monitorIndex = m /\ zones[z].isPrimary}

\* the step is the 200 ms callback of a new window that is still open, in no
\* zone, snappable and neither maximized nor fullscreen
IsSettledNewWindow(w) ==
    /\ Task("created", w) \in pending
    /\ lastOp' = Op("created", w)
    /\ wlife[w] = "open"
    /\ isSnappable(w)
    /\ ~IsMaxOrFull(w)
    /\ tilingZone[w] = NoZone
    /\ \A z \in DOMAIN zones : ~InSeq(w, zones[z].snappedWindows)

C25_WitnessNoPrimary ==
    /\ lastOp = Op("created", 1)
    /\ wlife[1] = "open"
    /\ 1 \in tracked
    /\ wmonitor[1] = 0
    /\ \A z \in DOMAIN zones : ~InSeq(1, zones[z].snappedWindows)

\* the handlers through which the window manager itself places windows: the
\* 'window-created' callback, the grab-end, the re-snap after a resume or a
\* reload of the configuration
PlacementOps == {"created", "grabOpEnd", "snapExistingWindows", "reloadConfiguration"}

\* the field the configured criteria names contains an entry of the exclusion list
MatchesExclusion(w) ==
    LET field == IF Exclusions.criteria = "appName" THEN winMeta[w].app.name
                 ELSE winMeta[w].wmClass
    IN  \E i \in DOMAIN Exclusions.list : Includes(field, Exclusions.list[i])

Ineligible(w) ==
    \/ wstate[w] = "fullscreen"
    \/ WindowType[w] # "NORMAL"
    \/ MatchesExclusion(w)

C26_WitnessDialog ==
    /\ lastOp = Op("grabOpEnd", 2)
    /\ wstate[2] = "normal"
    /\ wmonitor[2] = 1
    /\ \A z \in DOMAIN zones : ~InSeq(2, zones[z].snappedWindows)

\* a plain window that is fullscreen has been through the re-snap of a reload
\* and is in no zone
C26_WitnessFullscreen ==
    /\ lastOp.op = "reloadConfiguration"
    /\ wlife[1] = "open"
    /\ wstate[1] = "fullscreen"
    /\ \A z \in DOMAIN zones : ~InSeq(1, zones[z].snappedWindows)

\* the step is unsnapWindow(w) on zone z
IsUnsnap(z, w) ==
    /\ lastOp' = Op("unsnapWindow", w)
    /\ zones' = unsnapWindow(World, z, w).zones
    /\ tilingZone' = unsnapWindow(World, z, w).tilingZone

\* the snapped set, the active window, the history and the tab list of every zone
Contents(zs) ==
    [z \in DOMAIN zs |->
        << zs[z].snappedWindows, zs[z].activeWindow, zs[z].history, zs[z].tabBar.tabs >>]

\* C27: unsnapWindow(W) on a zone that does not hold W, as a second call in a
\* row is, changes no zone's snapped set, active window, MRU history or tab
\* list, and leaves W's association with its zone as it is
C27_UnsnapOfAbsentWindowIsNoOp ==
    [][\A z \in DOMAIN zones, w \in Windows :
          (IsUnsnap(z, w) /\ ~InSeq(w, zones[z].snappedWindows))
              => /\ Contents(zones') = Contents(zones)
                 /\ tilingZone' = tilingZone
                 /\ focus' = focus]_vars

\* unsnapWindow(1) has just run and window 1 is still snapped and active in a
\* zone beside another window: the call was on a zone that does not hold it
C27_Witness ==
    /\ lastOp = Op("unsnapWindow", 1)
    /\ \E z \in DOMAIN zones :
           /\ InSeq(1, zones[z].snappedWindows)
           /\ tilingZone[1] = z
           /\ zones[z].activeWindow = 1
           /\ Len(zones[z].snappedWindows) = 2

\* ---- one zone and more windows than its history holds
MruWindows == 1..NumMru

MruZone == <<1>>

\* the windows of one application, titled "A", "B", ...
MruMeta == [w \in MruWindows |-> [title |-> << 64 + w >>, app |-> App1, wmClass |-> StrFoo]]

\* one configured zone; the windows appear one after the other
InitMru ==
    /\ winMeta = MruMeta
    /\ tabCfg = MachineTabCfg
    /\ zones = ZonesOf(SubSeq(ConfigZones, 1, 1))
    /\ topZones = TopOf(SubSeq(ConfigZones, 1, 1))
    /\ wlife = [w \in MruWindows |-> "unborn"]
    /\ tilingZone = [w \in MruWindows |-> NoZone]
    /\ originalZone = [w \in MruWindows |-> NoZone]
    /\ bypass = [w \in MruWindows |-> FALSE]
    /\ wstate = [w \in MruWindows |-> "normal"]
    /\ wmonitor = [w \in MruWindows |-> 1]
    /\ tracked = {}
    /\ grab = NoGrab
    /\ hoverTimer = FALSE
    /\ focus = NoWindow
    /\ lastReq = NoRequest
    /\ pending = {}
    /\ lastOp = Op("init", NoWindow)
    /\ drag = NoDrag
    /\ pressState = [w \in MruWindows |-> NewPressState]
    /\ hiddenTabs = {}
    /\ clicked = NoWindow
    /\ pressDragged = {}
    /\ dragsBegun = 0
    /\ closedSnapped = {}
    /\ enabled = TRUE
    /\ compositor = Compositor("honour")

\* the next window appears and is snapped into the zone
SnapNewWindow(w) ==
    /\ CanSchedule
    /\ wlife[w] = "unborn"
    /\ \A v \in MruWindows : v < w => wlife[v] = "open"
    /\ wlife' = [wlife EXCEPT ![w] = "open"]
    /\ Commit(snapWindow(World, MruZone, w))
    /\ lastOp' = Op("snapWindow", w)
    /\ UNCHANGED << winMeta, tabCfg, topZones, bypass, wstate, grab, hoverTimer, closedSnapped, enabled, compositor >>
    /\ UNCHANGED dndVars

\* 'tab-clicked': Zone.activateWindow
ActivateWindow(z, w) ==
    /\ CanSchedule
    /\ Commit(activateWindow(World, z, w))
    /\ lastOp' = Op("activateWindow", w)
    /\ UNCHANGED envVars

\* the window leaves the zone, closed or dragged out: Zone.unsnapWindow.  lastOp
\* tells whether it was the zone's active window
LeaveZone(z, w) ==
    /\ CanSchedule
    /\ Commit(unsnapWindow(World, z, w))
    /\ lastOp' = Op(IF zones[z].activeWindow = w THEN "unsnapActive" ELSE "unsnapOther", w)
    /\ UNCHANGED envVars

NextMru ==
    \/ \E w \in MruWindows : SnapNewWindow(w)
    \/ \E w \in {v \in MruWindows : wlife[v] = "open"} : ActivateWindow(MruZone, w)
    \/ \E w \in {v \in MruWindows : wlife[v] = "open"} : LeaveZone(MruZone, w)
    \/ \E t \in pending : RunMoveResize(t)

SpecMru == InitMru /\ [][NextMru]_vars

\* the entries of the zone's history that are snapped in it and are not w, by
\* their position
ValidEntries(z, w) ==
    {i \in DOMAIN zones[z].history :
        /\ zones[z].history[i] # w
        /\ InSeq(zones[z].history[i], zones[z].snappedWindows)}

\* the windows the zone holds beside w
Remaining(z, w) ==
    {zones[z].snappedWindows[i] : i \in DOMAIN zones[z].snappedWindows} \ {w}

\* C28: unsnapWindow of the zone's active window makes active the first entry
\* of the MRU history that is still snapped; without such an entry, one of the
\* remaining windows; without remaining windows, none.  unsnapWindow of another
\* window leaves the active window as it is
C28_UnsnapPromotesMostRecent ==
    [][\A w \in MruWindows :
          (/\ lastOp'.w = w
           /\ lastOp'.op \in {"unsnapActive", "unsnapOther"}
           /\ zones' = unsnapWindow(World, MruZone, w).zones
           /\ InSeq(w, zones[MruZone].snappedWindows))
              => IF zones[MruZone].activeWindow # w
                 THEN zones'[MruZone].activeWindow = zones[MruZone].activeWindow
                 ELSE IF ValidEntries(MruZone, w) # {}
                 THEN \E i \in ValidEntries(MruZone, w) :
                         /\ \A j \in ValidEntries(MruZone, w) : i <= j
                         /\ zones'[MruZone].activeWindow = zones[MruZone].history[i]
                 ELSE IF Remaining(MruZone, w) # {}
                 THEN zones'[MruZone].activeWindow \in Remaining(MruZone, w)
                 ELSE zones'[MruZone].activeWindow = NoWindow]_vars

\* the active window has just left a zone of three and the window that took
\* over is neither the first nor the last of the zone's set
C28_Witness ==
    /\ lastOp.op = "unsnapActive"
    /\ Len(zones[MruZone].snappedWindows) = 3
    /\ zones[MruZone].activeWindow = zones[MruZone].snappedWindows[2]
    /\ zones[MruZone].history[1] = zones[MruZone].activeWindow

\* the active window has just left and the history held none of the windows
\* that remain: the one that took over is all the history holds
C28_WitnessNoEntry ==
    /\ lastOp.op = "unsnapActive"
    /\ Len(zones[MruZone].snappedWindows) >= 1
    /\ zones[MruZone].history = << zones[MruZone].snappedWindows[1] >>
    /\ zones[MruZone].activeWindow = zones[MruZone].snappedWindows[1]
    /\ Len(zones[MruZone].snappedWindows) >= 2

\* the last window has just left the zone
C28_WitnessEmpty ==
    /\ lastOp.op = "unsnapActive"
    /\ zones[MruZone].snappedWindows = << >>
    /\ zones[MruZone].activeWindow = NoWindow

\* C29: the MRU history of every zone has at most 5 entries, holds no window
\* twice, holds only windows snapped in the zone and, when the zone has an
\* active window, begins with it
C29_HistoryWellFormed ==
    \A z \in DOMAIN zones :
        LET h == zones[z].history
        IN  /\ Len(h) <= 5
            /\ \A i, j \in DOMAIN h : h[i] = h[j] => i = j
            /\ \A i \in DOMAIN h : InSeq(h[i], zones[z].snappedWindows)
            /\ zones[z].activeWindow # NoWindow
                   => (h # << >> /\ h[1] = zones[z].activeWindow)

\* six windows are snapped in the zone, its history is full and an older window
\* has been brought back to the front
C29_Witness ==
    /\ Len(zones[MruZone].snappedWindows) = 6
    /\ Len(zones[MruZone].history) = 5
    /\ zones[MruZone].activeWindow = 2
    /\ zones[MruZone].history[1] = 2
    /\ lastOp = Op("activateWindow", 2)

\* the step is a pointer motion of the drag over the visible bar of zone t whose
\* insertion index k lies strictly inside another group
IsRejectedMotion(t, k) ==
    /\ drag # NoDrag /\ drag.connected
    /\ lastOp'.op = "dragMotion"
    /\ findTargetTabBar(t) = t
    /\ k \in 1..(Len(VisibleTabs(t)) - 1)
    /\ getGroupingId(VisibleTabs(t)[k]) = getGroupingId(VisibleTabs(t)[k + 1])
    /\ getGroupingId(VisibleTabs(t)[k]) # getGroupingId(drag.tabs[1])
    /\ drag' = updatePlaceholder(drag, t, k)

\* C30: a pointer position whose insertion index lies strictly inside another
\* group leaves a placeholder that stands in a bar in that bar at its index, so
\* that a release drops the dragged tabs there
C30_RejectedIndexKeepsPlaceholder ==
    [][\A t \in TopZoneSet, k \in 1..NumWindows :
          (IsRejectedMotion(t, k) /\ drag.host # NoZone)
              => (drag'.host = drag.host /\ drag'.index = drag.index)]_vars

\* C30 for a placeholder that stood in a bar: a rejected index in that bar takes
\* it out of every bar, a rejected index in another bar moves it there
C30_RejectedIndexUnplaces ==
    [][\A t \in TopZoneSet, k \in 1..NumWindows :
          (IsRejectedMotion(t, k) /\ drag.host # NoZone)
              => drag'.host = (IF drag.host = t THEN NoZone ELSE t)]_vars

\* the step runs during a gesture on a window that carries the bypass mark, and
\* is neither its begin nor its end
InBypassedGesture ==
    /\ grab # NoGrab
    /\ grab' = grab
    /\ bypass[grab.window]

\* the zones that hold the window
Holders(w) == {z \in DOMAIN zones : InSeq(w, zones[z].snappedWindows)}

\* the step asks for no geometry of the window, now or deferred, and leaves its
\* zone membership and the active window of its zone as they are
LeavesWindowAlone(w) ==
    /\ lastReq'.window # w
    /\ \A t \in pending' \ pending : t.kind \in {"idle", "timeout"} => t.window # w
    /\ HoldersAfter(w) = Holders(w)
    /\ tilingZone'[w] = tilingZone[w]
    /\ \A z \in Holders(w) : zones'[z].activeWindow = zones[z].activeWindow

\* C31: during a bypassed gesture on a window, the allocation changes of the
\* window and the settle check they queue request no geometry for it and leave
\* its zone membership and its zone's active window unchanged
C31_BypassedGestureSkipsBookkeeping ==
    [][(InBypassedGesture /\ lastOp'.op \in {"allocationChanged", "settle"})
          => LeavesWindowAlone(grab.window)]_vars

\* C31 for a window that is in no zone, or is maximized or fullscreen when the
\* settle check runs
C31_SettleSkipsUnzonedOrMaximized ==
    [][(/\ InBypassedGesture
        /\ lastOp'.op \in {"allocationChanged", "settle"}
        /\ (Holders(grab.window) = {} \/ IsMaxOrFull(grab.window)))
          => LeavesWindowAlone(grab.window)]_vars


\* ------------------------------------------- a session with the host in the loop
\* How the host treats a placement request: it grants it, ignores it, rounds the
\* size down to its own grid, or rounds only what is asked with user_op false
\* (the 50 ms step of snapWindow)
HostPolicies == {"honour", "ignore", "constrain", "final"}

Constrained(f) == [f EXCEPT !.width = @ - (@ % 10), !.height = @ - (@ % 10)]

\* the frame a granted request gives: move_frame keeps the size
Placed(frame, req) ==
    IF req.kind = "move_frame" THEN [frame EXCEPT !.x = req.x, !.y = req.y]
    ELSE [x |-> req.x, y |-> req.y, width |-> req.width, height |-> req.height]

HostFrame(policy, frame, req, userOp) ==
    IF policy = "ignore" THEN frame
    ELSE IF policy = "honour" \/ (policy = "final" /\ userOp) THEN Placed(frame, req)
    ELSE Constrained(Placed(frame, req))

\* the latest request is answered before the event loop runs anything else
Answered == lastReq = NoRequest \/ lastOp.op = "configure"

\* the frames the settle check re-snapped the window from, and whether it did so
\* twice from the same frame, since the last event of the user
Chain(c, op, frame) ==
    IF op # "settle" THEN c
    ELSE [c EXCEPT !.seen = @ \cup {frame}, !.again = @ \/ frame \in c.seen]

\* The host answers the request: the window gets its frame, and when the frame
\* changed the actor's notify::allocation runs onAllocationChanged of a tracked
\* window, which queues the settle check unless one is queued
HostConfigure ==
    /\ ~Answered
    /\ LET w == lastReq.window
           f == IF wlife[w] # "open" THEN compositor.frame
                ELSE HostFrame(compositor.policy, compositor.frame, lastReq,
                               lastOp.op # "timeout")
       IN  /\ compositor' = [Chain(compositor, lastOp.op, compositor.frame) EXCEPT !.frame = f]
           /\ pending' = IF f # compositor.frame /\ w \in tracked
                         THEN pending \cup {Task("settle", w)} ELSE pending
           /\ lastOp' = Op("configure", w)
    /\ UNCHANGED << winMeta, tabCfg, topZones, bypass, wstate, wlife, grab, hoverTimer,
                    closedSnapped, enabled >>
    /\ UNCHANGED dndVars
    /\ UNCHANGED << zones, tilingZone, originalZone, focus, lastReq, wmonitor, tracked >>

\* the user or the client maximizes, restores or makes fullscreen the window,
\* whatever is queued
WindowStateChanged(w, st) ==
    /\ Answered
    /\ wlife[w] = "open"
    /\ wstate[w] # st
    /\ wstate' = [wstate EXCEPT ![w] = st]
    /\ compositor' = [compositor EXCEPT !.seen = {}, !.again = FALSE]
    /\ lastOp' = Op("setWindowState", w)
    /\ lastReq' = NoRequest
    /\ UNCHANGED << winMeta, tabCfg, topZones, bypass, wlife, grab, hoverTimer,
                    closedSnapped, enabled >>
    /\ UNCHANGED dndVars
    /\ UNCHANGED << zones, tilingZone, originalZone, focus, pending, wmonitor, tracked >>

\* TabbedTilingExtension.disable -> WindowManager.disable: the signals are
\* disconnected, the hover poll is removed, every zone is destroyed and _zones is
\* emptied.  No source of GLib.idle_add or GLib.timeout_add is removed.
Disable ==
    /\ Answered
    /\ enabled
    /\ enabled' = FALSE
    /\ hoverTimer' = FALSE
    /\ topZones' = << >>
    /\ Commit([destroyEach(World, topZones) EXCEPT !.tracked = {}])
    /\ compositor' = [compositor EXCEPT !.seen = {}, !.again = FALSE]
    /\ lastOp' = Op("disable", NoWindow)
    /\ UNCHANGED << winMeta, tabCfg, bypass, wstate, wlife, grab, closedSnapped >>
    /\ UNCHANGED dndVars

\* the 'changed' handler of the configuration file monitor: the 100 ms callback
\* is scheduled
OnConfigChanged ==
    /\ Answered
    /\ enabled
    /\ Task("reload", NoWindow) \notin pending
    /\ pending' = pending \cup {Task("reload", NoWindow)}
    /\ lastOp' = Op("configChanged", NoWindow)
    /\ lastReq' = NoRequest
    /\ UNCHANGED envVars
    /\ UNCHANGED << zones, tilingZone, originalZone, focus, wmonitor, tracked >>

\* the 100 ms callback: this._windowManager.reloadConfiguration(), a TypeError
\* once disable() set _windowManager to null
RunConfigReload(t, centres) ==
    /\ Answered
    /\ t \in pending
    /\ t.kind = "reload"
    /\ Commit(IF enabled THEN reloadConfiguration(WorldAfter(t), centres) ELSE WorldAfter(t))
    /\ lastOp' = Op("reloadConfiguration", NoWindow)
    /\ UNCHANGED envVars

InitHost ==
    /\ InitCommon
    /\ compositor \in {Compositor(p) : p \in HostPolicies}
    /\ winMeta = MachineMeta
    /\ tabCfg = MachineTabCfg
    /\ zones = ZonesOf(ConfigZones)
    /\ topZones = TopOf(ConfigZones)
    /\ wlife = [w \in Windows |-> "unborn"]

NextHost ==
    \/ HostConfigure
    \/ \E w \in Windows, m \in {0, 1} : Answered /\ enabled /\ OnAnyWindowCreated(w, m)
    \/ \E t \in pending : Answered /\ RunCreated(t)
    \/ \E t \in pending : Answered /\ RunMoveResize(t)
    \/ \E t \in pending : Answered /\ RunSettle(t)
    \/ \E w \in Created, st \in {"normal", "maximized"} : WindowStateChanged(w, st)
    \/ \E w \in Created : Answered /\ CloseWindow(w)
    \/ OnConfigChanged
    \/ \E t \in pending, c \in {[w \in Windows |-> TRUE]} : RunConfigReload(t, c)
    \/ Disable

SpecHost == InitHost /\ [][NextHost]_vars

\* a deferred callback ran in the step
CallbackRan == pending \ pending' # {}

\* C32: once disable() has run, no callback scheduled before it asks for a
\* placement, registers the tracking of a window or changes a zone
C32_NoCallbackActsAfterDisable ==
    [][(~enabled /\ CallbackRan)
          => (lastReq' = NoRequest /\ tracked' = tracked /\ zones' = zones)]_vars

\* C32 for the settle check and the delayed reload of the configuration: run
\* after disable() they ask for nothing, track nothing and change no zone
C32_SettleAndReloadIdleAfterDisable ==
    [][(~enabled /\ CallbackRan /\ lastOp'.op \in {"settle", "reloadConfiguration"})
          => (lastReq' = NoRequest /\ tracked' = tracked /\ zones' = zones)]_vars

\* the window of a deferred step is open, neither maximized nor fullscreen, and
\* snapped in a leaf whose frame is the one the step was scheduled with
StepStillValid(t) ==
    /\ wlife[t.window] = "open"
    /\ ~IsMaxOrFull(t.window)
    /\ \E z \in DOMAIN zones :
          /\ IsLeaf(z)
          /\ InSeq(t.window, zones[z].snappedWindows)
          /\ HasMonitor(zones[z])
          /\ SnapFrame(zones[z], t.window) = [x |-> t.x, y |-> t.y, width |-> t.width, height |-> t.height]

\* C34: a deferred step of snapWindow whose window is gone, left the zone, or is
\* maximized or fullscreen when the step runs asks for no placement
C34_DeferredStepRevalidates ==
    [][\A t \in pending :
          (/\ t.kind \in {"idle", "timeout"}
           /\ t \notin pending'
           /\ lastOp' = Op(t.kind, t.window)
           /\ ~StepStillValid(t))
             => lastReq' = NoRequest]_vars

\* C34 for an open window that was maximized after the snap: the deferred step
\* asks for no placement
C34_DeferredStepSkipsMaximized ==
    [][\A t \in pending :
          (/\ t.kind \in {"idle", "timeout"}
           /\ t \notin pending'
           /\ lastOp' = Op(t.kind, t.window)
           /\ wlife[t.window] = "open"
           /\ IsMaxOrFull(t.window))
             => lastReq' = NoRequest]_vars

\* C34 for an open window in normal state that is in no zone any more when the
\* deferred step runs
C34_DeferredStepSkipsUnsnapped ==
    [][\A t \in pending :
          (/\ t.kind \in {"idle", "timeout"}
           /\ t \notin pending'
           /\ lastOp' = Op(t.kind, t.window)
           /\ wlife[t.window] = "open"
           /\ ~IsMaxOrFull(t.window)
           /\ Holders(t.window) = {})
             => lastReq' = NoRequest]_vars

\* C33, the chain: the settle check never re-snaps the window twice from the same
\* frame with no event of the user between, which would repeat for ever
C33_SettleChainQuiesces == ~compositor.again

\* C33, the chain under a host that grants, ignores or rounds every request alike
C33_UniformHostQuiesces == compositor.policy # "final" => ~compositor.again

\* C33, the requests of one snapWindow: the step that asks for move_frame
\* schedules at most the idle and the 50 ms move-resize for that window, and a
\* deferred step schedules nothing
C33_AtMostThreeRequests ==
    [][/\ (lastReq'.kind = "move_frame" /\ lastOp'.op # "configure")
          => /\ Cardinality(pending' \ pending) <= 2
             /\ \A t \in pending' \ pending :
                   t.kind \in {"idle", "timeout"} /\ t.window = lastReq'.window
       /\ (CallbackRan /\ lastOp'.op \in {"idle", "timeout"})
          => /\ pending' \subseteq pending
             /\ lastReq'.kind = "move_resize_frame"]_vars

\* the latest step was a batch re-snap of the existing windows
AfterBatch == lastOp.op \in {"snapExistingWindows", "reloadConfiguration"}

\* every top-level zone has the force-hidden mark its monitor calls for
TopVisibilityRefreshed ==
    \A i \in DOMAIN topZones :
        HasMonitor(zones[topZones[i]])
            => zones[topZones[i]].forceHidden = MonitorBlocked(zones[topZones[i]].monitorIndex)

\* the tabs of every top-level zone are in sorted order
TopTabsOrdered ==
    \A i \in DOMAIN topZones :
        ReorderTabsBar(zones[topZones[i]].tabBar).tabs = zones[topZones[i]].tabBar.tabs

\* C35: a batch re-snap reaches every open window (each is tracked by it) and
\* ends with visibility and tab order refreshed, whatever happened while one
\* window was handled
C35_BatchSurvivesError ==
    AfterBatch => (OpenWindows \subseteq tracked /\ TopVisibilityRefreshed /\ TopTabsOrdered)

\* C36: the grab-end of a gesture whose grab-begin started the hover poll leaves
\* no hover poll running, whatever the state of the window at grab-end
C36_GrabEndStopsHoverPoll ==
    [][(grab # NoGrab /\ hoverTimer /\ lastOp'.op = "grabOpEnd" /\ grab' = NoGrab)
          => ~hoverTimer']_vars

\* C36 for a window that is still snappable at grab-end
C36_SnappableGrabEndStopsHoverPoll ==
    [][(/\ grab # NoGrab /\ hoverTimer /\ lastOp'.op = "grabOpEnd" /\ grab' = NoGrab
        /\ isSnappable(grab.window))
          => ~hoverTimer']_vars

\* ------------------------------------------------ snaps into zones of any size
\* the widths and heights snapWindow requests: below the base size, the base
\* size, between two valid sizes, and valid sizes
RequestedWidths == {50, 67, 68, 77, 78, 79, 295}
RequestedHeights == {60, 100, 101, 119, 120, 139}

QuantZone == <<1>>

\* a zone without gaps that asks for rw x rh below its tab bar
QuantZoneData(rw, rh) ==
    [name |-> "Q", monitorIndex |-> 0, x |-> 0, y |-> 0, width |-> rw,
     height |-> rh + TabBarHeight, gaps |-> NoGaps, gap |-> 0, isPrimary |-> TRUE]

InitQuant ==
    /\ InitCommon
    /\ compositor = Compositor("honour")
    /\ winMeta = MachineMeta
    /\ tabCfg = MachineTabCfg
    /\ \E rw \in RequestedWidths, rh \in RequestedHeights :
          zones = ZonesOf(<< QuantZoneData(rw, rh) >>)
    /\ topZones = << QuantZone >>
    /\ wlife = [w \in Windows |-> "open"]

NextQuant ==
    \/ \E w \in Windows : SnapWindow(QuantZone, w)
    \/ \E t \in pending : RunMoveResize(t)

SpecQuant == InitQuant /\ [][NextQuant]_vars

\* the size snapWindow asks _quantizeToSizeHints for in the zone
RequestedW == zones[QuantZone].width
RequestedH == zones[QuantZone].height - TabBarHeight

\* the sizes of the placement requests made or scheduled for a window
SizesFor(w) ==
    {<<t.width, t.height>> : t \in {u \in pending : u.kind \in {"idle", "timeout"} /\ u.window = w}}
    \cup (IF lastReq.kind = "move_resize_frame" /\ lastReq.window = w
          THEN {<<lastReq.width, lastReq.height>>} ELSE {})

\* d is base + k * inc for a k >= 0
OnGrid(d, base, inc) == d >= base /\ (d - base) % inc = 0

\* d is the requested dimension rounded down to the grid
RoundedDown(d, requested, base, inc) ==
    OnGrid(d, base, inc) /\ d <= requested /\ requested < d + inc

\* C37: the size requested for a terminal is on the grid of valid sizes and
\* never above the size asked for; the size requested for any other window is
\* the size asked for
C37_QuantizedNeverAboveRequested ==
    \A w \in Windows : \A sz \in SizesFor(w) :
        IF isTerminal(w)
        THEN /\ OnGrid(sz[1], baseW, incW) /\ sz[1] <= RequestedW
             /\ OnGrid(sz[2], baseH, incH) /\ sz[2] <= RequestedH
        ELSE sz = <<RequestedW, RequestedH>>

\* C37 as the code has it: a dimension asked for at or above the base size is
\* rounded down to the grid, one asked for below the base size becomes the base
\* size; other windows keep the size asked for
C37_QuantizedDownOrBase ==
    \A w \in Windows : \A sz \in SizesFor(w) :
        IF isTerminal(w)
        THEN /\ IF RequestedW >= baseW THEN RoundedDown(sz[1], RequestedW, baseW, incW)
                ELSE sz[1] = baseW
             /\ IF RequestedH >= baseH THEN RoundedDown(sz[2], RequestedH, baseH, incH)
                ELSE sz[2] = baseH
        ELSE sz = <<RequestedW, RequestedH>>

\* a terminal was asked to take a size between two valid sizes
C37_Witness ==
    /\ \E sz \in SizesFor(2) : sz[1] < RequestedW /\ sz[2] < RequestedH
    /\ isTerminal(2)

\* a terminal was asked to take a size below the base size
C37_WitnessBelowBase ==
    /\ isTerminal(2)
    /\ RequestedW < baseW
    /\ SizesFor(2) # {}

\* a window that is no terminal was snapped
C37_WitnessOther ==
    /\ ~isTerminal(1)
    /\ SizesFor(1) # {}

\* the active window of every leaf is one of its windows, and a leaf that holds
\* a window has an active window
ActiveIsMember ==
    \A z \in LeafZones :
        /\ zones[z].activeWindow # NoWindow => InSeq(zones[z].activeWindow, zones[z].snappedWindows)
        /\ zones[z].snappedWindows # << >> => zones[z].activeWindow # NoWindow

\* activateWindow was called in the step for a window the zone does not hold
IsActivateOfAbsent ==
    /\ lastOp'.op = "activateWindow"
    /\ ~InSeq(lastOp'.w, zones[MruZone].snappedWindows)

\* C38: after every step the active window of a leaf is absent or one of the
\* leaf's windows and a leaf with a window has an active window; activateWindow
\* for a window the zone does not hold changes nothing
C38_ActiveWindowIsMember ==
    [][/\ ActiveIsMember'
       /\ IsActivateOfAbsent
             => /\ zones' = zones
                /\ focus' = focus
                /\ tilingZone' = tilingZone
                /\ pending' = pending]_vars

\* the zone holds windows and activateWindow was called for an open window that
\* left it
C38_Witness ==
    /\ lastOp.op = "activateWindow"
    /\ wlife[lastOp.w] = "open"
    /\ ~InSeq(lastOp.w, zones[MruZone].snappedWindows)
    /\ Len(zones[MruZone].snappedWindows) >= 2

\* C39: the split direction of a zone is 'none' exactly when the zone is a leaf
C39_SplitDirectionMarksParent ==
    \A z \in DOMAIN zones : (zones[z].splitDirection = "none") <=> IsLeaf(z)

\* C39 for the zones that are not leaves, and for the leaves that no split made
C39_ParentsAndRootsMarked ==
    \A z \in DOMAIN zones :
        /\ ~IsLeaf(z) => zones[z].splitDirection \in {"horizontal", "vertical"}
        /\ (IsLeaf(z) /\ zones[z].parentZone = NoZone) => zones[z].splitDirection = "none"

\* C39 for the second child of a split, which receives no window: its snapped
\* set, history and active window are empty until a window is snapped into it
C39_ChildStartsEmpty ==
    [][lastOp'.op = "split"
          => \A z \in DOMAIN zones' \ DOMAIN zones :
                z[Len(z)] = 2 => /\ zones'[z].snappedWindows = << >>
                                 /\ zones'[z].history = << >>
                                 /\ zones'[z].activeWindow = NoWindow]_vars

\* C39 for merge: a zone that stops being a parent has split direction 'none'
C39_MergedIsUnmarked ==
    [][\A z \in DOMAIN zones \cap DOMAIN zones' :
          (~IsLeaf(z) /\ Len(zones'[z].childZones) = 0) => zones'[z].splitDirection = "none"]_vars

\* ------------------------------------------------ restoreSnap in a zone of tabs
\* the settle check of a window of the zone: Zone.restoreSnap
RestoreSnap(z, w) ==
    /\ CanSchedule
    /\ Commit(restoreSnap(World, z, w))
    /\ lastOp' = Op("restoreSnap", w)
    /\ UNCHANGED envVars

NextRestore ==
    \/ \E w \in MruWindows : SnapNewWindow(w)
    \/ \E w \in {v \in MruWindows : wlife[v] = "open"} : ActivateWindow(MruZone, w)
    \/ \E w \in {v \in MruWindows : wlife[v] = "open"} : LeaveZone(MruZone, w)
    \/ \E w \in {v \in MruWindows : wlife[v] = "open"} : RestoreSnap(MruZone, w)
    \/ \E t \in pending : RunMoveResize(t)

SpecRestore == InitMru /\ [][NextRestore]_vars

\* restoreSnap ran in the step for a window the zone holds
IsRestoreSnap(w) ==
    /\ lastOp' = Op("restoreSnap", w)
    /\ InSeq(w, zones[MruZone].snappedWindows)

\* what restoreSnap is to leave alone: the windows, active window, history and
\* tab order of every zone
Bookkeeping(zs) ==
    [z \in DOMAIN zs |-> << zs[z].snappedWindows, zs[z].activeWindow, zs[z].history,
                            zs[z].tabBar.tabs, zs[z].tabBar.activeTab >>]

\* C40: restoreSnap of a window that is snapped asks again for its frame and
\* changes no zone's windows, active window, history or tab order, and not the
\* focused window
C40_RestoreSnapOnlyPlaces ==
    [][\A w \in MruWindows :
          IsRestoreSnap(w)
             => /\ lastReq' = MoveRequest(w, SnapFrame(zones[MruZone], w))
                /\ Bookkeeping(zones') = Bookkeeping(zones)
                /\ focus' = focus
                /\ tilingZone' = tilingZone]_vars

\* C40 for the windows of the zone: restoreSnap asks again for the frame and
\* changes no snapped set, no tab order and no tag
C40_RestoreSnapKeepsMembership ==
    [][\A w \in MruWindows :
          IsRestoreSnap(w)
             => /\ lastReq' = MoveRequest(w, SnapFrame(zones[MruZone], w))
                /\ \A z \in DOMAIN zones :
                      /\ zones'[z].snappedWindows = zones[z].snappedWindows
                      /\ zones'[z].tabBar.tabs = zones[z].tabBar.tabs
                /\ tilingZone' = tilingZone]_vars

\* C40 for the window that is the zone's active window, first in its history and
\* focused: restoreSnap changes nothing but the request
C40_RestoreSnapOfActiveOnlyPlaces ==
    [][\A w \in MruWindows :
          (/\ IsRestoreSnap(w)
           /\ zones[MruZone].activeWindow = w
           /\ focus = w)
             => /\ Bookkeeping(zones') = Bookkeeping(zones)
                /\ focus' = focus
                /\ tilingZone' = tilingZone]_vars

====
